---- MODULE Spec2Model ----
(***************************************************************************)
(* A model of rzbackup's repository engine: Repository::open, the bundle   *)
(* load scheduler behind get_chunk_async_async, and the restore pipeline   *)
(* (follow_instructions / restore) of src/zbackup/repo.rs.                   *)
(***************************************************************************)
EXTENDS Integers, Sequences, FiniteSets, TLC

VARIABLES
    max_threads,            \* RepositoryConfig.max_threads
    master_index,           \* RepositoryState.master_index : Option <MasterIndex>
    bundles_loading,        \* RepositoryState.bundles_loading
    bundles_to_load,        \* RepositoryState.bundles_to_load
    bundles_to_load_list,   \* RepositoryState.bundles_to_load_list
    tasks,                  \* bundle read closures spawned on the cpu pool, not yet run
    cache,                  \* storage manager contents: hex chunk id -> chunk bytes
    requests,               \* the futures handed out by get_chunk_async_async
    first_request_order,    \* history: queued bundles by time of their first request
    \* Repository::restore and Repository::follow_instructions
    r_name,                 \* backup_name
    r_pc,                   \* "idle", "follow" (inside follow_instructions), "done"
    r_result,               \* "none", "ok", "err"
    r_error,                \* the Err string
    r_iterations_left,      \* iterations of read_and_expand_backup still to run
    r_checksum,             \* backup_info.get_sha256 ()
    fi_input,               \* bytes of the instruction stream not yet read
    fi_current,             \* current_chunk_job
    fi_next,                \* next_chunk_jobs
    fi_future,              \* future_chunk_job
    fi_eof,                 \* eof
    fi_output,              \* temp_output of the running expansion
    sink,                   \* the bytes the target of restore has accepted
    digest,                 \* the digest fed by follow_instructions
    \* Repository::open
    storage_info,           \* what read_storage_info finds in the info file
    password_file_path,     \* Option <PasswordFilePath> and the file behind it
    repository_config,      \* RepositoryConfig
    storage_manager_ok,     \* whether StorageManager::new succeeds
    open_result,            \* Result <Repository, String>, once open has run
    \* index loading: Repository::load_indexes and IndexCache
    ix_impl,                \* "repo" (Repository) or "cache" (IndexCache)
    ix_dir,                 \* the index directory: index ids in directory order
    num_cpus,               \* num_cpus::get ()
    ic_entries,             \* IndexCache.entries : Option <HashMap>
    ix_mutex,               \* the thread that holds Repository.state, 0 if none
    ix_pc,                  \* where each caller is inside its call
    ix_op,                  \* the call each caller is in: "load" or "reload"
    ix_result,              \* what each caller's last call returned
    ld,                     \* the locals of the load in progress
    ix_hist,                \* history of the loads, the queries and the I/O
    \* AtomicFileWriter and the maintenance operation that owns it
    fs,                     \* the repository directory: directories and files
    afw,                    \* AtomicFileWriterState and where commit is
    afw_hist,               \* history of the running transaction
    maint,                  \* the caller of the writer and where it is
    \* maintenance processes and the repository lock
    maint_procs,            \* each process: its operation and where it is
    lock_file,              \* the locks on <root>/lock, tmp/, the live tree
    lock_hist,              \* history of the scans and the mutations
    \* the index maintenance operations
    cv_index,               \* index/: index file name -> its entries
    cv_bundles,             \* the ids of the bundle files on disk
    cv_backups,             \* the backup files under backups/
    cv_master,              \* the master index loaded after the last run
    cv_last,                \* the last run: what it found, made and deleted
    cv_log,                 \* what the directory held after each run
    \* the cpu pool under reload_indexes
    pool,                   \* the pool's threads and queue, the state mutex
    \* gc-bundles
    gcb,                    \* bundle files, index entries, where the run is
    \* check-backups
    chk                     \* backups/, backups-broken/, what the run did

sched_vars == << max_threads, master_index, bundles_loading, bundles_to_load,
                 bundles_to_load_list, tasks, cache, requests,
                 first_request_order >>

restore_vars == << r_name, r_pc, r_result, r_error, r_iterations_left,
                   r_checksum, fi_input, fi_current, fi_next, fi_future,
                   fi_eof, fi_output, sink, digest >>

open_vars == << storage_info, password_file_path, repository_config,
                storage_manager_ok, open_result >>

index_vars == << ix_impl, ix_dir, num_cpus, ic_entries, ix_mutex, ix_pc, ix_op,
                 ix_result, ld, ix_hist >>

writer_vars == << fs, afw, afw_hist, maint >>

lock_vars == << maint_procs, lock_file, lock_hist >>

convert_vars ==
    << cv_index, cv_bundles, cv_backups, cv_master, cv_last, cv_log >>

more_vars == << pool, gcb, chk >>

\* what the scheduler's handlers leave alone
SchedFrame ==
    UNCHANGED << restore_vars, open_vars, index_vars, writer_vars, lock_vars,
                 convert_vars, more_vars >>

\* what restore and follow_instructions leave alone
RestoreFrame ==
    UNCHANGED << open_vars, index_vars, writer_vars, lock_vars, convert_vars, more_vars >>

----------------------------------------------------------------------------
(* Bounds of the model *)

\* max_threads ranges over 0 .. MaxThreadsLimit
MaxThreadsLimit == 2

\* number of get_chunk_async_async calls made by the callers
MaxRequests == 3

\* threads that call load_indexes, reload_indexes and has_chunk
MaxCallers == 2

\* calls of load_indexes / reload_indexes made in one run
MaxCalls == 2

\* num_cpus::get () ranges over 1 .. MaxCpus
MaxCpus == 2

\* changes other processes make to the index directory in one run
MaxDirChanges == 1

\* files one transaction of the writer stages
MaxStaged == 2

\* delete targets one transaction records
MaxDeletes == 2

\* maintenance processes on one repository
MaxProcs == 2

\* bundles_per_index, and the maintenance runs on one repository
MaxPerIndex == 2
MaxRuns == 2

\* index files one reload_indexes finds
MaxIndexFiles == 2

\* runs of gc-bundles on one repository
MaxGcRuns == 1

\* backup files under backups/
MaxBackups == 3

----------------------------------------------------------------------------
(* Identifiers and their hex form *)

IdSize == 24

MkId(n) == [i \in 1 .. IdSize |-> IF i = IdSize THEN n ELSE 0]

NoId == << >>

HexDigits == "0123456789abcdef"

HexByte(b) ==
    SubSeq(HexDigits, (b \div 16) + 1, (b \div 16) + 1)
        \o SubSeq(HexDigits, (b % 16) + 1, (b % 16) + 1)

ToHex(bytes) ==
    LET hex[i \in 0 .. Len(bytes)] ==
            IF i = 0 THEN "" ELSE hex[i - 1] \o HexByte(bytes[i])
    IN hex[Len(bytes)]

----------------------------------------------------------------------------
(* The repository on disk *)

Bundle1 == MkId(177)
Bundle2 == MkId(178)
Bundle3 == MkId(179)

Chunk1 == MkId(10)
Chunk2 == MkId(11)
Chunk3 == MkId(12)
Chunk4 == MkId(13)
Chunk5 == MkId(254)
Chunk6 == MkId(255)

ChunkIds == {Chunk1, Chunk2, Chunk3, Chunk4, Chunk5, Chunk6}

EmptyMap == [x \in {} |-> x]

MapRemove(m, k) == [x \in DOMAIN m \ {k} |-> m[x]]

MapInsert(m, k, v) == (k :> v) @@ m

\* bundle files: the chunks each bundle file holds (read_bundle's result)
BundleFiles ==
    (Bundle1 :> ((Chunk1 :> <<1, 2>>) @@ (Chunk2 :> <<3>>)))
    @@ (Bundle2 :> (Chunk3 :> <<4, 5>>))
    @@ (Bundle3 :> (Chunk4 :> <<3, 18, 1, 6>>))

\* index files, in directory order: (bundle id, chunk records) entries.
\* Chunk5 is indexed under Bundle3 but is not in that bundle file; Chunk6 is
\* in no index.
IndexFiles ==
    << << [bundle_id |-> Bundle1,
           chunks |-> << [id |-> Chunk1, size |-> 2], [id |-> Chunk2, size |-> 1] >>] >>,
       << [bundle_id |-> Bundle2,
           chunks |-> << [id |-> Chunk3, size |-> 2] >>],
          [bundle_id |-> Bundle3,
           chunks |-> << [id |-> Chunk4, size |-> 4], [id |-> Chunk5, size |-> 1] >>] >> >>

----------------------------------------------------------------------------
(* load_indexes *)

RECURSIVE InsertChunkRecords(_, _, _)
InsertChunkRecords(index, bundle_id, records) ==
    IF records = << >> THEN index
    ELSE InsertChunkRecords(
            MapInsert(MapRemove(index, Head(records).id), Head(records).id,
                [bundle_id |-> bundle_id, size |-> Head(records).size]),
            bundle_id, Tail(records))

RECURSIVE InsertIndexEntries(_, _, _)
InsertIndexEntries(index, bundle_ids, entries) ==
    IF entries = << >> THEN index
    ELSE InsertIndexEntries(
            IF Head(entries).bundle_id \in bundle_ids
            THEN InsertChunkRecords(index, Head(entries).bundle_id, Head(entries).chunks)
            ELSE index,
            bundle_ids, Tail(entries))

RECURSIVE LoadIndexesReal(_, _, _)
LoadIndexesReal(index, bundle_ids, files) ==
    IF files = << >> THEN index
    ELSE LoadIndexesReal(
            InsertIndexEntries(index, bundle_ids, Head(files)),
            bundle_ids, Tail(files))

NoIndex == [is_some |-> FALSE, map |-> EmptyMap]

LoadIndexes ==
    /\ ~ master_index.is_some
    /\ master_index' =
        [is_some |-> TRUE,
         map |-> LoadIndexesReal(EmptyMap, DOMAIN BundleFiles, IndexFiles)]
    /\ UNCHANGED << max_threads, bundles_loading, bundles_to_load,
                    bundles_to_load_list, tasks, cache, requests,
                    first_request_order >>
    /\ SchedFrame

----------------------------------------------------------------------------
(* Index files, and the parts of an index load *)

Index1 == MkId(1)
Index2 == MkId(2)
Index3 == MkId(3)
Index4 == MkId(4)

\* a bundle that has no file under bundles/
Bundle4 == MkId(180)

\* what read_index finds in each index file. Index3 names Chunk1 again, with
\* another bundle and size; Index4 describes a bundle that is not on disk.
IndexData ==
    (Index1 :> IndexFiles[1])
    @@ (Index2 :> IndexFiles[2])
    @@ (Index3 :>
        << [bundle_id |-> Bundle2,
            chunks |-> << [id |-> Chunk1, size |-> 7] >>] >>)
    @@ (Index4 :>
        << [bundle_id |-> Bundle4,
            chunks |-> << [id |-> Chunk6, size |-> 1],
                          [id |-> Chunk2, size |-> 9] >>] >>)

\* the contents the index directory can have
IndexDirs ==
    { <<Index1, Index2>>, <<Index1, Index3, Index4>>, <<Index3, Index1>> }

Callers == 1 .. MaxCallers

\* mutant: the bundle set is not consulted
BundleScanned_Any(bundle_ids, bundle_id) == TRUE

\* bundle_ids.contains (& bundle_id)
BundleScanned(bundle_ids, bundle_id) == bundle_id \in bundle_ids

RECURSIVE ChunkEntries(_, _)
ChunkEntries(bundle_id, records) ==
    IF records = << >> THEN << >>
    ELSE << [chunk_id |-> Head(records).id, bundle_id |-> bundle_id,
             size |-> Head(records).size] >>
            \o ChunkEntries(bundle_id, Tail(records))

\* the entries an index read task returns: those of the bundles found by
\* the bundle scan
RECURSIVE IndexTaskEntries(_, _)
IndexTaskEntries(bundle_ids, index) ==
    IF index = << >> THEN << >>
    ELSE (IF BundleScanned(bundle_ids, Head(index).bundle_id)
          THEN ChunkEntries(Head(index).bundle_id, Head(index).chunks)
          ELSE << >>)
            \o IndexTaskEntries(bundle_ids, Tail(index))

\* mutant: an entry already in the map is kept
MasterInsert_KeepFirst(map, entry) ==
    IF entry.chunk_id \in DOMAIN map THEN map
    ELSE MapInsert(map, entry.chunk_id,
            [bundle_id |-> entry.bundle_id, size |-> entry.size])

\* master_index.insert (chunk_id, entry)
MasterInsert(map, entry) ==
    MapInsert(MapRemove(map, entry.chunk_id), entry.chunk_id,
        [bundle_id |-> entry.bundle_id, size |-> entry.size])

RECURSIVE MasterInsertAll(_, _)
MasterInsertAll(map, index_entries) ==
    IF index_entries = << >> THEN map
    ELSE MasterInsertAll(MasterInsert(map, Head(index_entries)),
                         Tail(index_entries))

\* mutant: the loaded check is lost
IsLoaded_Never(index) == FALSE

\* self_state.master_index.is_some ()
IsLoaded(index) == index.is_some

\* num_threads of IndexCache::load_indexes, in usize arithmetic
NumThreads(cpus) == ((cpus - 1) * 7) \div 3 + 1

NoLoad ==
    [bundle_ids |-> {}, index_ids |-> << >>, futures |-> << >>, next |-> 1,
     in_flight |-> << >>,
     master |-> EmptyMap, inserted |-> << >>, count |-> 0, error_count |-> 0]

NoHistory ==
    [calls |-> 0, caller |-> 0, skipped |-> FALSE, changes |-> 0,
     loads |-> 0, lazy_loads |-> 0,
     installed |-> {}, seen |-> NoIndex, queries |-> 0,
     io_locked |-> FALSE, last |-> NoLoad]

\* history: the last stored load and the last query are kept for one step
Passed(hist) ==
    [hist EXCEPT !.last = NoLoad, !.seen = NoIndex, !.queries = 0]

\* the index variables of a run that loads its index in one step
IndexIdle ==
    /\ ix_impl = "repo"
    /\ ix_dir = <<Index1, Index2>>
    /\ num_cpus = 1
    /\ ic_entries = NoIndex
    /\ ix_mutex = 0
    /\ ix_pc = [t \in Callers |-> "idle"]
    /\ ix_op = [t \in Callers |-> "none"]
    /\ ix_result = [t \in Callers |-> "none"]
    /\ ld = NoLoad
    /\ ix_hist = NoHistory

----------------------------------------------------------------------------
(* Repository::load_indexes, reload_indexes and load_indexes_real *)

\* what an index load leaves alone
IndexFrame ==
    UNCHANGED << max_threads, bundles_loading, bundles_to_load,
                 bundles_to_load_list, tasks, cache, requests,
                 first_request_order, restore_vars, open_vars, writer_vars,
                 lock_vars, convert_vars, more_vars >>

\* the call returns: the guard of self.state is dropped
IndexCallReturns(t, result) ==
    /\ ix_mutex' = 0
    /\ ix_pc' = [ix_pc EXCEPT ![t] = "idle"]
    /\ ix_result' = [ix_result EXCEPT ![t] = result]

\* the caller takes the lock and enters load_indexes_real
IndexLoadBegins(t) ==
    /\ ix_mutex' = t
    /\ ix_pc' = [ix_pc EXCEPT ![t] = "scan"]
    /\ ix_result' = [ix_result EXCEPT ![t] = "none"]

LoadIndexesCall(t) ==
    /\ ix_impl = "repo"
    /\ ix_pc[t] = "idle"
    /\ ix_mutex = 0
    /\ ix_hist.calls < MaxCalls
    /\ ix_op' = [ix_op EXCEPT ![t] = "load"]
    /\ ix_hist' = [Passed(ix_hist) EXCEPT
                    !.calls = @ + 1, !.caller = t,
                    !.skipped = IsLoaded(master_index)]
    /\ IF IsLoaded(master_index)
       THEN IndexCallReturns(t, "ok")
       ELSE IndexLoadBegins(t)
    /\ UNCHANGED << master_index, ix_impl, ix_dir, num_cpus, ic_entries, ld >>
    /\ IndexFrame

ReloadIndexesCall(t) ==
    /\ ix_impl = "repo"
    /\ ix_pc[t] = "idle"
    /\ ix_mutex = 0
    /\ ix_hist.calls < MaxCalls
    /\ ix_op' = [ix_op EXCEPT ![t] = "reload"]
    /\ ix_hist' = [Passed(ix_hist) EXCEPT
                    !.calls = @ + 1, !.caller = t, !.skipped = FALSE]
    /\ IndexLoadBegins(t)
    /\ UNCHANGED << master_index, ix_impl, ix_dir, num_cpus, ic_entries, ld >>
    /\ IndexFrame

\* the futures of the index read tasks, one per file of the directory
SpawnedFutures(dir) ==
    [i \in 1 .. Len(dir) |->
        [index_id |-> dir[i], state |-> "spawned", index_entries |-> << >>]]

\* mutant: a failed scan forgets the index that was loaded
IndexAfterFailedScan_Reset(index) == NoIndex

\* an early return of load_indexes_real leaves self_state as it was
IndexAfterFailedScan(index) == index

\* the bundle scan and the read_dir of index/, with the tasks it spawns
ScanRepository(t, scan_ok) ==
    /\ ix_impl = "repo"
    /\ ix_pc[t] = "scan"
    /\ ix_hist' = [Passed(ix_hist) EXCEPT !.io_locked = @ \/ ix_mutex = t]
    /\ IF scan_ok
       THEN /\ ld' = [NoLoad EXCEPT
                        !.bundle_ids = DOMAIN BundleFiles,
                        !.futures = SpawnedFutures(ix_dir)]
            /\ ix_pc' = [ix_pc EXCEPT ![t] = "wait"]
            /\ UNCHANGED << master_index, ix_mutex, ix_result >>
       ELSE /\ master_index' = IndexAfterFailedScan(master_index)
            /\ IndexCallReturns(t, "err")
            /\ ld' = NoLoad
    /\ UNCHANGED << ix_impl, ix_dir, num_cpus, ic_entries, ix_op >>
    /\ IndexFrame

\* an index read task on the cpu pool: read_index, then the bundle filter
ReadIndexTask(i, read_ok) ==
    /\ i \in DOMAIN ld.futures
    /\ ld.futures[i].state = "spawned"
    /\ ld' = [ld EXCEPT !.futures[i] =
                IF read_ok
                THEN [@ EXCEPT
                        !.state = "ok",
                        !.index_entries =
                            IndexTaskEntries(ld.bundle_ids,
                                             IndexData[ld.futures[i].index_id])]
                ELSE [@ EXCEPT !.state = "err"]]
    /\ UNCHANGED << master_index, ix_impl, ix_dir, num_cpus, ic_entries,
                    ix_mutex, ix_pc, ix_op, ix_result, ix_hist >>
    /\ IndexFrame

\* mutant: a failed index file is not counted
CountIndexError_Skip(load) == load

\* Err (error) of an index future: the message, and error_count += 1
CountIndexError(load) == [load EXCEPT !.error_count = @ + 1]

\* Ok (index_entries) of an index future: the inserts, and count += 1
InsertLoadedIndex(load, index_entries) ==
    [load EXCEPT
        !.master = MasterInsertAll(@, index_entries),
        !.inserted = @ \o index_entries,
        !.count = @ + 1]

\* index_result_future.wait () on the next future, in directory order
WaitIndex(t) ==
    /\ ix_impl = "repo"
    /\ ix_pc[t] = "wait"
    /\ ld.next <= Len(ld.futures)
    /\ ld.futures[ld.next].state # "spawned"
    /\ ld' = [(IF ld.futures[ld.next].state = "ok"
               THEN InsertLoadedIndex(ld, ld.futures[ld.next].index_entries)
               ELSE CountIndexError(ld))
                EXCEPT !.next = @ + 1]
    /\ UNCHANGED << master_index, ix_impl, ix_dir, num_cpus, ic_entries,
                    ix_mutex, ix_pc, ix_op, ix_result, ix_hist >>
    /\ IndexFrame

\* history: a load has stored its map
LoadStored(t, load) ==
    [Passed(ix_hist) EXCEPT
        !.loads = @ + 1,
        !.lazy_loads = IF ix_op[t] = "load" THEN @ + 1 ELSE @,
        !.installed = @ \cup {load.master},
        !.last = load]

\* self_state.master_index = Some (master_index), and Ok
StoreIndex(t) ==
    /\ ix_impl = "repo"
    /\ ix_pc[t] = "wait"
    /\ ld.next > Len(ld.futures)
    /\ master_index' = [is_some |-> TRUE, map |-> ld.master]
    /\ IndexCallReturns(t, "ok")
    /\ ix_hist' = LoadStored(t, ld)
    /\ ld' = NoLoad
    /\ UNCHANGED << ix_impl, ix_dir, num_cpus, ic_entries, ix_op >>
    /\ IndexFrame

\* has_chunk / get_index_entry: the index as read under the lock
QueryIndex(t) ==
    /\ ix_impl = "repo"
    /\ ix_pc[t] = "idle"
    /\ ix_mutex = 0
    /\ ix_hist.loads > 0
    /\ ix_hist' = [Passed(ix_hist) EXCEPT !.seen = master_index, !.queries = 1]
    /\ UNCHANGED << master_index, ix_impl, ix_dir, num_cpus, ic_entries,
                    ix_mutex, ix_pc, ix_op, ix_result, ld >>
    /\ IndexFrame

\* another process adds or removes index files. A change while index files
\* are being read shows only as a failed read, which ReadIndexTask has anyway.
IndexDirChanges ==
    /\ ix_hist.changes < MaxDirChanges
    /\ ld = NoLoad
    /\ ix_dir' \in IndexDirs \ {ix_dir}
    /\ ix_hist' = [Passed(ix_hist) EXCEPT !.changes = @ + 1]
    /\ UNCHANGED << master_index, ix_impl, num_cpus, ic_entries, ix_mutex,
                    ix_pc, ix_op, ix_result, ld >>
    /\ IndexFrame

----------------------------------------------------------------------------
(* IndexCache: load_if_not_loaded, reload, load_impl and load_indexes *)

\* the one owner of the IndexCache (its methods take & mut self)
CacheOwner == 1

\* self.entries.is_some ()
CacheIsLoaded(index) == index.is_some

CacheCallReturns(result) ==
    /\ ix_pc' = [ix_pc EXCEPT ![CacheOwner] = "idle"]
    /\ ix_result' = [ix_result EXCEPT ![CacheOwner] = result]

CacheLoadBegins ==
    /\ ix_pc' = [ix_pc EXCEPT ![CacheOwner] = "scan"]
    /\ ix_result' = [ix_result EXCEPT ![CacheOwner] = "none"]

LoadIfNotLoaded ==
    /\ ix_impl = "cache"
    /\ ix_pc[CacheOwner] = "idle"
    /\ ix_hist.calls < MaxCalls
    /\ ix_op' = [ix_op EXCEPT ![CacheOwner] = "load"]
    /\ ix_hist' = [Passed(ix_hist) EXCEPT
                    !.calls = @ + 1, !.caller = CacheOwner,
                    !.skipped = CacheIsLoaded(ic_entries)]
    /\ IF CacheIsLoaded(ic_entries)
       THEN CacheCallReturns("ok")
       ELSE CacheLoadBegins
    /\ UNCHANGED << master_index, ix_impl, ix_dir, num_cpus, ic_entries,
                    ix_mutex, ld >>
    /\ IndexFrame

CacheReload ==
    /\ ix_impl = "cache"
    /\ ix_pc[CacheOwner] = "idle"
    /\ ix_hist.calls < MaxCalls
    /\ ix_op' = [ix_op EXCEPT ![CacheOwner] = "reload"]
    /\ ix_hist' = [Passed(ix_hist) EXCEPT
                    !.calls = @ + 1, !.caller = CacheOwner, !.skipped = FALSE]
    /\ CacheLoadBegins
    /\ UNCHANGED << master_index, ix_impl, ix_dir, num_cpus, ic_entries,
                    ix_mutex, ld >>
    /\ IndexFrame

\* load_impl: scan_bundles and scan_indexes
CacheScan(scan_ok) ==
    /\ ix_impl = "cache"
    /\ ix_pc[CacheOwner] = "scan"
    /\ IF scan_ok
       THEN /\ ld' = [NoLoad EXCEPT
                        !.bundle_ids = DOMAIN BundleFiles,
                        !.index_ids = ix_dir]
            /\ ix_pc' = [ix_pc EXCEPT ![CacheOwner] = "loop"]
            /\ UNCHANGED ix_result
       ELSE /\ CacheCallReturns("err")
            /\ ld' = NoLoad
    /\ UNCHANGED << master_index, ix_impl, ix_dir, num_cpus, ic_entries,
                    ix_mutex, ix_op, ix_hist >>
    /\ IndexFrame

\* mutant: one future more than num_threads
DispatchCount_OneMore(in_flight, limit, remaining) ==
    IF remaining < limit + 1 - in_flight THEN remaining
    ELSE limit + 1 - in_flight

\* how many futures `while index_futures.len () < num_threads` pushes
DispatchCount(in_flight, limit, remaining) ==
    IF remaining < limit - in_flight THEN remaining ELSE limit - in_flight

\* the load after the start of a loop iteration of load_indexes
Dispatched(load, limit) ==
    LET first == Len(load.futures) + 1
        pushed ==
            DispatchCount(Len(load.in_flight), limit,
                          Len(load.index_ids) - Len(load.futures))
    IN [load EXCEPT
            !.futures = @ \o SpawnedFutures(
                SubSeq(load.index_ids, first, first + pushed - 1)),
            !.in_flight = @ \o [k \in 1 .. pushed |-> first + k - 1]]

\* a loop iteration up to select_all; with no future left load_indexes
\* returns and load_impl stores the map
CacheDispatch ==
    /\ ix_impl = "cache"
    /\ ix_pc[CacheOwner] = "loop"
    /\ LET load == Dispatched(ld, NumThreads(num_cpus))
       IN IF load.in_flight = << >>
          THEN /\ ic_entries' = [is_some |-> TRUE, map |-> load.master]
               /\ CacheCallReturns("ok")
               /\ ix_hist' = LoadStored(CacheOwner, load)
               /\ ld' = NoLoad
          ELSE /\ ld' = load
               /\ ix_pc' = [ix_pc EXCEPT ![CacheOwner] = "select"]
               /\ UNCHANGED << ic_entries, ix_result, ix_hist >>
    /\ UNCHANGED << master_index, ix_impl, ix_dir, num_cpus, ix_mutex, ix_op >>
    /\ IndexFrame

\* select_all yields future i, which has finished
CacheSelect(i) ==
    /\ ix_impl = "cache"
    /\ ix_pc[CacheOwner] = "select"
    /\ \E k \in DOMAIN ld.in_flight : ld.in_flight[k] = i
    /\ ld.futures[i].state # "spawned"
    /\ ld' = [(IF ld.futures[i].state = "ok"
               THEN InsertLoadedIndex(ld, ld.futures[i].index_entries)
               ELSE CountIndexError(ld))
                EXCEPT !.in_flight = SelectSeq(@, LAMBDA j : j # i)]
    /\ ix_pc' = [ix_pc EXCEPT ![CacheOwner] = "loop"]
    /\ UNCHANGED << master_index, ix_impl, ix_dir, num_cpus, ic_entries,
                    ix_mutex, ix_op, ix_result, ix_hist >>
    /\ IndexFrame

----------------------------------------------------------------------------
(* Requests: the double future returned by get_chunk_async_async *)

Requesters == 1 .. MaxRequests

NoRequest ==
    [chunk |-> NoId, via |-> "none", outer |-> "none", outer_err |-> "",
     inner |-> "none", bundle |-> NoId,
     inner_res |-> "pending", inner_data |-> << >>, inner_err |-> "",
     dropped |-> FALSE]

\* the scheduler state threaded through the handlers
CurState ==
    [loading |-> bundles_loading, to_load |-> bundles_to_load,
     list |-> bundles_to_load_list, tasks |-> tasks, cache |-> cache,
     reqs |-> requests, order |-> first_request_order]

SetState(st) ==
    /\ bundles_loading' = st.loading
    /\ bundles_to_load' = st.to_load
    /\ bundles_to_load_list' = st.list
    /\ tasks' = st.tasks
    /\ cache' = st.cache
    /\ requests' = st.reqs
    /\ first_request_order' = st.order

----------------------------------------------------------------------------
(* Error strings *)

\* mutant: the message without the chunk id
MissingChunkError_NoId(chunk_id) == "Missing chunk"

MissingChunkError(chunk_id) == "Missing chunk: " \o ToHex(chunk_id)

ReadBundleError(bundle_id, original_error) ==
    "Error reading bundle " \o ToHex(bundle_id) \o ": " \o original_error

ExpectedChunkError(chunk_id, bundle_id) ==
    "Expected to find chunk " \o ToHex(chunk_id)
        \o " in bundle " \o ToHex(bundle_id)

CancelledError == "Cancelled"

\* what read_bundle and StorageManager::insert can fail with
IoErrors == {"Input/output error"}

----------------------------------------------------------------------------
(* The scheduler: get_chunk_async_async and the functions it calls *)

Range(seq) == {seq[i] : i \in DOMAIN seq}

\* every Complete handle held in a waiters map
WaitersOf(bundle_waiters) ==
    UNION {Range(bundle_waiters[c]) : c \in DOMAIN bundle_waiters}

\* pushing a oneshot Complete onto bundle_waiters [chunk_id]
PushWaiter(bundle_waiters, chunk_id, r) ==
    LET with_key ==
            IF chunk_id \in DOMAIN bundle_waiters THEN bundle_waiters
            ELSE MapInsert(bundle_waiters, chunk_id, << >>)
    IN [with_key EXCEPT ![chunk_id] = Append(@, r)]

\* a Complete handle dropped without being completed
Cancel(reqs, dropped, field) ==
    [r \in DOMAIN reqs |->
        IF r \in dropped
        THEN IF field = "outer"
             THEN [reqs[r] EXCEPT !.outer = "failed", !.outer_err = CancelledError]
             ELSE [reqs[r] EXCEPT !.inner_res = "err", !.inner_err = CancelledError]
        ELSE reqs[r]]

OuterReady(st, r) == [st EXCEPT !.reqs[r].outer = "ready"]

\* history: the branch of get_chunk_async_async that served the request
Via(st, r, branch) == [st EXCEPT !.reqs[r].via = branch]

JoinLoadChunkAsync(st, r, chunk_id, bundle_id) ==
    [st EXCEPT
        !.loading[bundle_id] = PushWaiter(@, chunk_id, r),
        !.reqs[r].inner = "waiter",
        !.reqs[r].bundle = bundle_id,
        !.reqs[r].inner_res = "pending"]

JoinFutureLoadChunkAsync(st, r, chunk_id, bundle_id) ==
    [st EXCEPT
        !.to_load[bundle_id] = PushWaiter(@, chunk_id, r),
        !.reqs[r].outer = "pending"]

StartLoadChunkAsync(st, r, chunk_id, bundle_id) ==
    LET replaced ==
            IF bundle_id \in DOMAIN st.loading
            THEN WaitersOf(st.loading[bundle_id]) ELSE {}
    IN [st EXCEPT
        !.loading = MapInsert(MapRemove(@, bundle_id), bundle_id, EmptyMap),
        !.tasks = @ \cup {[bundle |-> bundle_id, chunk |-> chunk_id, req |-> r]},
        !.reqs = [Cancel(@, replaced, "inner") EXCEPT
                    ![r].inner = "task",
                    ![r].bundle = bundle_id,
                    ![r].inner_res = "pending"]]

\* mutant: the join check is skipped
IsBundleLoading_Never(loading, bundle_id) == FALSE

IsBundleLoading(loading, bundle_id) == bundle_id \in DOMAIN loading

\* mutant: off by one in the slot test
HasFreeSlot_OffByOne(loading, limit) == Cardinality(DOMAIN loading) <= limit

HasFreeSlot(loading, limit) == Cardinality(DOMAIN loading) < limit

\* mutant: the bundle is pushed onto the list at every queued request
EnqueueBundle_Always(st, bundle_id) ==
    [st EXCEPT
        !.to_load =
            IF bundle_id \in DOMAIN @ THEN @
            ELSE MapInsert(@, bundle_id, EmptyMap),
        !.list = Append(@, bundle_id),
        !.order = IF bundle_id \in Range(@) THEN @ ELSE Append(@, bundle_id)]

EnqueueBundle(st, bundle_id) ==
    IF bundle_id \in DOMAIN st.to_load THEN st
    ELSE [st EXCEPT
            !.to_load = MapInsert(@, bundle_id, EmptyMap),
            !.list = Append(@, bundle_id),
            !.order = Append(@, bundle_id)]

LoadChunkAsyncAsyncReal(st, r, chunk_id, bundle_id) ==
    IF IsBundleLoading(st.loading, bundle_id)
    THEN OuterReady(
            JoinLoadChunkAsync(Via(st, r, "join"), r, chunk_id, bundle_id), r)
    ELSE IF HasFreeSlot(st.loading, max_threads)
    THEN OuterReady(
            StartLoadChunkAsync(Via(st, r, "start"), r, chunk_id, bundle_id), r)
    ELSE JoinFutureLoadChunkAsync(
            EnqueueBundle(Via(st, r, "queue"), bundle_id),
            r, chunk_id, bundle_id)

IndexLookup(index, chunk_id) ==
    IF chunk_id \in DOMAIN index
    THEN [found |-> TRUE, bundle_id |-> index[chunk_id].bundle_id]
    ELSE [found |-> FALSE, bundle_id |-> NoId]

LoadChunkAsyncAsync(st, r, chunk_id) ==
    LET entry == IndexLookup(master_index.map, chunk_id)
    IN IF entry.found
       THEN LoadChunkAsyncAsyncReal(st, r, chunk_id, entry.bundle_id)
       ELSE [st EXCEPT
                !.reqs[r].via = "missing",
                !.reqs[r].outer = "failed",
                !.reqs[r].outer_err = MissingChunkError(chunk_id)]

\* StorageManager::get: a future for the chunk when some tier holds it
StorageGet(store, key) == key \in DOMAIN store

GetChunkAsyncAsyncReal(st, r, chunk_id) ==
    LET called == [st EXCEPT !.reqs[r].chunk = chunk_id]
    IN IF StorageGet(st.cache, ToHex(chunk_id))
       THEN [called EXCEPT
                !.reqs[r].via = "cache",
                !.reqs[r].outer = "ready",
                !.reqs[r].inner = "storage",
                !.reqs[r].inner_res = "pending"]
       ELSE LoadChunkAsyncAsync(called, r, chunk_id)

GetChunkAsyncAsync(r, chunk_id) ==
    /\ master_index.is_some
    /\ requests[r].outer = "none"
    /\ SetState(GetChunkAsyncAsyncReal(CurState, r, chunk_id))
    /\ UNCHANGED << max_threads, master_index >>
    /\ SchedFrame

\* the storage manager's task for a cache hit delivers the cached bytes
StorageGetDone(r) ==
    /\ requests[r].inner = "storage"
    /\ requests[r].inner_res = "pending"
    /\ ToHex(requests[r].chunk) \in DOMAIN cache
    /\ requests' = [requests EXCEPT
            ![r].inner_res = "ok",
            ![r].inner_data = cache[ToHex(requests[r].chunk)]]
    /\ UNCHANGED << max_threads, master_index, bundles_loading, bundles_to_load,
                    bundles_to_load_list, tasks, cache, first_request_order >>
    /\ SchedFrame

----------------------------------------------------------------------------
(* The bundle read task spawned by start_load_chunk_async, and
   start_loading_next_chunks *)

\* completing every waiter of a loaded bundle with its chunk, or with the
\* error for a chunk the bundle does not hold
CompleteWaiters(reqs, bundle_waiters, chunk_map, bundle_id) ==
    [r \in DOMAIN reqs |->
        IF r \in WaitersOf(bundle_waiters)
        THEN LET chunk_id ==
                    CHOOSE c \in DOMAIN bundle_waiters :
                        r \in Range(bundle_waiters[c])
             IN IF chunk_id \in DOMAIN chunk_map
                THEN [reqs[r] EXCEPT
                        !.inner_res = "ok",
                        !.inner_data = chunk_map[chunk_id]]
                ELSE [reqs[r] EXCEPT
                        !.inner_res = "err",
                        !.inner_err = ExpectedChunkError(chunk_id, bundle_id)]
        ELSE reqs[r]]

\* mutant: the newest queued bundle is taken
PopFront_Back(list) ==
    [bundle_id |-> list[Len(list)], rest |-> SubSeq(list, 1, Len(list) - 1)]

\* bundles_to_load_list.pop_front ()
PopFront(list) == [bundle_id |-> Head(list), rest |-> Tail(list)]

\* mutant: the other waiters of a promoted bundle are forgotten
PromoteWaiters_Forget(st, waiters, chunk_id, bundle_id) == st

\* the waiters of a promoted bundle join the new load: each outer future is
\* completed with an inner future from join_load_chunk_async
RECURSIVE PromoteWaiters(_, _, _, _)
PromoteWaiters(st, waiters, chunk_id, bundle_id) ==
    IF waiters = << >> THEN st
    ELSE PromoteWaiters(
            OuterReady(
                JoinLoadChunkAsync(st, Head(waiters), chunk_id, bundle_id),
                Head(waiters)),
            Tail(waiters), chunk_id, bundle_id)

RECURSIVE PromoteBundleWaiters(_, _, _)
PromoteBundleWaiters(st, bundle_waiters, bundle_id) ==
    IF DOMAIN bundle_waiters = {} THEN st
    ELSE LET chunk_id == CHOOSE c \in DOMAIN bundle_waiters : TRUE
         IN PromoteBundleWaiters(
                PromoteWaiters(st, bundle_waiters[chunk_id], chunk_id, bundle_id),
                MapRemove(bundle_waiters, chunk_id), bundle_id)

\* mutant: a finished load promotes no queued bundle
StartLoadingNextChunks_Never(st, first_chunk_id) == st

\* first_chunk_id is bundle_waiters.keys ().next (): any key of the map
StartLoadingNextChunks(st, first_chunk_id) ==
    IF st.list = << >> THEN st
    ELSE LET popped == PopFront(st.list)
             bundle_id == popped.bundle_id
             bundle_waiters == st.to_load[bundle_id]
             first_waiters == bundle_waiters[first_chunk_id]
             removed ==
                [st EXCEPT
                    !.list = popped.rest,
                    !.to_load = MapRemove(@, bundle_id),
                    !.order = SelectSeq(@, LAMBDA b : b # bundle_id)]
             started ==
                OuterReady(
                    StartLoadChunkAsync(
                        removed, Head(first_waiters), first_chunk_id, bundle_id),
                    Head(first_waiters))
             joined ==
                PromoteWaiters(
                    started, Tail(first_waiters), first_chunk_id, bundle_id)
         IN PromoteBundleWaiters(
                joined, MapRemove(bundle_waiters, first_chunk_id), bundle_id)

FirstChunkChoices(st) ==
    IF st.list = << >> THEN {NoId}
    ELSE DOMAIN st.to_load[PopFront(st.list).bundle_id]

StorageInsertAll(store, chunk_map, chunk_ids) ==
    [key \in DOMAIN store \cup {ToHex(c) : c \in chunk_ids} |->
        IF \E c \in chunk_ids : ToHex(c) = key
        THEN chunk_map[CHOOSE c \in chunk_ids : ToHex(c) = key]
        ELSE store[key]]

\* the closure when read_bundle and every storage insert succeed
RunBundleTask(st, task, first_chunk_id) ==
    LET bundle_id == task.bundle
        chunk_map == BundleFiles[bundle_id]
        stored ==
            [st EXCEPT
                !.tasks = @ \ {task},
                !.cache = StorageInsertAll(@, chunk_map, DOMAIN chunk_map)]
        bundle_waiters == stored.loading[bundle_id]
        notified ==
            [stored EXCEPT
                !.loading = MapRemove(@, bundle_id),
                !.reqs = CompleteWaiters(@, bundle_waiters, chunk_map, bundle_id)]
        next == StartLoadingNextChunks(notified, first_chunk_id)
    IN IF task.chunk \in DOMAIN chunk_map
       THEN [next EXCEPT
                !.reqs[task.req].inner_res = "ok",
                !.reqs[task.req].inner_data = chunk_map[task.chunk]]
       ELSE [next EXCEPT
                !.reqs[task.req].inner_res = "err",
                !.reqs[task.req].inner_err =
                    ExpectedChunkError(task.chunk, bundle_id)]

\* the closure when `chunk_map_result ?` or `try! (storage_manager.insert)`
\* returns early: only the task's own future gets the error
FailBundleTask(st, task, error, inserted) ==
    [st EXCEPT
        !.tasks = @ \ {task},
        !.cache = StorageInsertAll(@, BundleFiles[task.bundle], inserted),
        !.reqs[task.req].inner_res = "err",
        !.reqs[task.req].inner_err = error]

BundleTaskOk(task) ==
    /\ task \in tasks
    /\ task.bundle \in DOMAIN BundleFiles
    /\ \E first_chunk_id \in FirstChunkChoices(CurState) :
       \E st \in {RunBundleTask(CurState, task, first_chunk_id)} :
            SetState(st)
    /\ UNCHANGED << max_threads, master_index >>
    /\ SchedFrame

BundleReadFailed(task, original_error) ==
    /\ task \in tasks
    /\ SetState(FailBundleTask(CurState, task,
            ReadBundleError(task.bundle, original_error), {}))
    /\ UNCHANGED << max_threads, master_index >>
    /\ SchedFrame

BundleInsertFailed(task, original_error, inserted) ==
    /\ task \in tasks
    /\ task.bundle \in DOMAIN BundleFiles
    /\ inserted \subseteq DOMAIN BundleFiles[task.bundle]
    /\ inserted # DOMAIN BundleFiles[task.bundle]
    /\ SetState(FailBundleTask(CurState, task, original_error, inserted))
    /\ UNCHANGED << max_threads, master_index >>
    /\ SchedFrame

----------------------------------------------------------------------------
(* Callers that drop the future they hold *)

\* the caller lets go of the future returned by get_chunk_async_async: the
\* outer future while it is pending (the inner one is then dropped on
\* arrival), the inner future otherwise
DropFuture(r) ==
    /\ requests[r].outer # "none"
    /\ ~ requests[r].dropped
    /\ requests' = [requests EXCEPT ![r].dropped = TRUE]
    /\ UNCHANGED << max_threads, master_index, bundles_loading,
                    bundles_to_load, bundles_to_load_list, tasks, cache,
                    first_request_order >>
    /\ SchedFrame

\* the inner future of the request that starts a load is the CpuFuture of
\* spawn_fn: once it has been dropped, a pool thread that has not yet begun
\* the closure finds the future gone and discards the closure unrun
TaskCancellable(reqs, task) == reqs[task.req].dropped

\* the pool discards the closure: nothing in it runs, so the bundle keeps
\* its entry in bundles_loading and its waiters keep their pending futures
BundleTaskCancelled(task) ==
    /\ task \in tasks
    /\ TaskCancellable(requests, task)
    /\ tasks' = tasks \ {task}
    /\ UNCHANGED << max_threads, master_index, bundles_loading,
                    bundles_to_load, bundles_to_load_list, cache, requests,
                    first_request_order >>
    /\ SchedFrame

----------------------------------------------------------------------------
(* Repository::open *)

\* the encryption key is KEY_SIZE bytes
KeySize == 16

NoKey == [is_some |-> FALSE, key |-> << >>]

SomeKey(key) == [is_some |-> TRUE, key |-> key]

Passwords == {"secret", "guess"}

\* the wrapped key of the info file: the password that unwraps it and the
\* key inside
EncryptionKeyInfo == [password |-> "secret", key |-> [i \in 1 .. KeySize |-> 90]]

\* the info file: unreadable, or a StorageInfo with or without a key
StorageInfos ==
    [readable : BOOLEAN, has_encryption_key : BOOLEAN]

NoPasswordFile == [is_some |-> FALSE, readable |-> FALSE, password |-> ""]

PasswordFiles ==
    {NoPasswordFile}
        \cup [is_some : {TRUE}, readable : BOOLEAN, password : Passwords]

\* decrypt_key: Err when the password file cannot be read, None when its
\* password does not unwrap the key, the key otherwise
DecryptKey(password_file, encryption_key_info) ==
    IF ~ password_file.readable
    THEN [ok |-> FALSE, error |-> "Input/output error", value |-> NoKey]
    ELSE IF password_file.password = encryption_key_info.password
    THEN [ok |-> TRUE, error |-> "", value |-> SomeKey(encryption_key_info.key)]
    ELSE [ok |-> TRUE, error |-> "", value |-> NoKey]

\* mutant: a password file given for a repository without key is ignored
OpenEncryptionKey_Lenient(info, password_file) ==
    IF info.has_encryption_key
    THEN IF ~ password_file.is_some
         THEN [ok |-> FALSE, error |-> "Required password file not provided",
               value |-> NoKey]
         ELSE LET decrypted == DecryptKey(password_file, EncryptionKeyInfo)
              IN IF ~ decrypted.ok THEN decrypted
                 ELSE IF decrypted.value.is_some THEN decrypted
                 ELSE [ok |-> FALSE, error |-> "Incorrect password",
                       value |-> NoKey]
    ELSE [ok |-> TRUE, error |-> "", value |-> NoKey]

\* the block of open that yields encryption_key, or returns early
OpenEncryptionKey(info, password_file) ==
    IF info.has_encryption_key
    THEN IF ~ password_file.is_some
         THEN [ok |-> FALSE, error |-> "Required password file not provided",
               value |-> NoKey]
         ELSE LET decrypted == DecryptKey(password_file, EncryptionKeyInfo)
              IN IF ~ decrypted.ok THEN decrypted
                 ELSE IF decrypted.value.is_some THEN decrypted
                 ELSE [ok |-> FALSE, error |-> "Incorrect password",
                       value |-> NoKey]
    ELSE IF password_file.is_some
         THEN [ok |-> FALSE, error |-> "Unnecessary password file provided",
               value |-> NoKey]
         ELSE [ok |-> TRUE, error |-> "", value |-> NoKey]

NoRepository ==
    [is_some |-> FALSE, encryption_key |-> NoKey, max_threads |-> 0,
     cpu_pool |-> 0, master_index |-> NoIndex, bundles_loading |-> EmptyMap,
     bundles_to_load |-> EmptyMap, bundles_to_load_list |-> << >>]

\* the Repository that open builds
NewRepository(config, encryption_key) ==
    [is_some |-> TRUE, encryption_key |-> encryption_key,
     max_threads |-> config.max_threads,
     cpu_pool |-> config.max_threads + 1,
     master_index |-> NoIndex, bundles_loading |-> EmptyMap,
     bundles_to_load |-> EmptyMap, bundles_to_load_list |-> << >>]

OpenErr(error) ==
    [status |-> "err", error |-> error, repository |-> NoRepository]

OpenOk(repository) ==
    [status |-> "ok", error |-> "", repository |-> repository]

NotOpened == [status |-> "none", error |-> "", repository |-> NoRepository]

\* the open variables of a run that does not call open
OpenIdle ==
    /\ storage_info = [readable |-> TRUE, has_encryption_key |-> FALSE]
    /\ password_file_path = NoPasswordFile
    /\ repository_config = [max_threads |-> max_threads]
    /\ storage_manager_ok = TRUE
    /\ open_result = NotOpened

Open ==
    /\ open_result = NotOpened
    /\ open_result' =
        IF ~ storage_info.readable
        THEN OpenErr("Input/output error")
        ELSE LET encryption_key ==
                    OpenEncryptionKey(storage_info, password_file_path)
             IN IF ~ encryption_key.ok
                THEN OpenErr(encryption_key.error)
                ELSE IF ~ storage_manager_ok
                THEN OpenErr("Input/output error")
                ELSE OpenOk(NewRepository(repository_config,
                                          encryption_key.value))
    /\ UNCHANGED << storage_info, password_file_path, repository_config,
                    storage_manager_ok, sched_vars, restore_vars, index_vars,
                    writer_vars, lock_vars, convert_vars, more_vars >>

----------------------------------------------------------------------------
(* Backup instruction streams: length-delimited BackupInstruction records *)

\* a record as written by the creator of the backup
EncodeInstruction(has_chunk, chunk_id, has_bytes, bytes) ==
    LET body ==
            (IF has_chunk THEN <<10, Len(chunk_id)>> \o chunk_id ELSE << >>)
            \o (IF has_bytes THEN <<18, Len(bytes)>> \o bytes ELSE << >>)
    IN <<Len(body)>> \o body

RECURSIVE ReadVarint(_)
ReadVarint(bytes) ==
    IF bytes = << >> THEN [ok |-> FALSE, value |-> 0, rest |-> << >>]
    ELSE IF Head(bytes) < 128
    THEN [ok |-> TRUE, value |-> Head(bytes), rest |-> Tail(bytes)]
    ELSE LET more == ReadVarint(Tail(bytes))
         IN [ok |-> more.ok,
             value |-> (Head(bytes) - 128) + 128 * more.value,
             rest |-> more.rest]

\* a varint length followed by that many bytes
ReadDelimited(bytes) ==
    LET length == ReadVarint(bytes)
    IN IF length.ok /\ length.value <= Len(length.rest)
       THEN [ok |-> TRUE,
             value |-> SubSeq(length.rest, 1, length.value),
             rest |-> SubSeq(length.rest, length.value + 1, Len(length.rest))]
       ELSE [ok |-> FALSE, value |-> << >>, rest |-> << >>]

NoInstruction ==
    [ok |-> TRUE, has_chunk_to_emit |-> FALSE, chunk_to_emit |-> << >>,
     has_bytes_to_emit |-> FALSE, bytes_to_emit |-> << >>]

\* the fields of one BackupInstruction: 1 = chunk_to_emit, 2 = bytes_to_emit
RECURSIVE ParseInstruction(_, _)
ParseInstruction(bytes, instruction) ==
    IF bytes = << >> THEN instruction
    ELSE LET tag == ReadVarint(bytes)
             payload == ReadDelimited(tag.rest)
         IN IF ~ tag.ok \/ tag.value % 8 # 2 \/ ~ payload.ok
            THEN [instruction EXCEPT !.ok = FALSE]
            ELSE ParseInstruction(payload.rest,
                    IF tag.value \div 8 = 1
                    THEN [instruction EXCEPT
                            !.has_chunk_to_emit = TRUE,
                            !.chunk_to_emit = payload.value]
                    ELSE IF tag.value \div 8 = 2
                    THEN [instruction EXCEPT
                            !.has_bytes_to_emit = TRUE,
                            !.bytes_to_emit = payload.value]
                    ELSE instruction)

\* read_message: the next record of the stream and what follows it
ReadMessage(bytes) ==
    LET message == ReadDelimited(bytes)
    IN IF message.ok
       THEN [instruction |-> ParseInstruction(message.value, NoInstruction),
             rest |-> message.rest]
       ELSE [instruction |-> [NoInstruction EXCEPT !.ok = FALSE],
             rest |-> << >>]

ReadMessageError == "Error reading backup instruction"

----------------------------------------------------------------------------
(* The digest fed by follow_instructions *)

DigestNew == [sum |-> 0]

RECURSIVE DigestInput(_, _)
DigestInput(state, data) ==
    IF data = << >> THEN state
    ELSE DigestInput([sum |-> (state.sum * 31 + Head(data) + 1) % 251],
                     Tail(data))

\* the digest as bytes
DigestResult(state) == << state.sum >>

----------------------------------------------------------------------------
(* The backup files of the repository *)

ChunkOnly(chunk_id) == EncodeInstruction(TRUE, chunk_id, FALSE, << >>)
BytesOnly(bytes) == EncodeInstruction(FALSE, << >>, TRUE, bytes)
ChunkAndBytes(chunk_id, bytes) == EncodeInstruction(TRUE, chunk_id, TRUE, bytes)

BackupFiles ==
    \* three bundles, a chunk with a literal, a literal alone
    ("b" :>
        [iterations |-> 0,
         backup_data |-> ChunkOnly(Chunk1) \o ChunkAndBytes(Chunk3, <<88>>)
                            \o BytesOnly(<<69, 78>>) \o ChunkOnly(Chunk4),
         sha256 |-> DigestResult(DigestInput(DigestNew,
                        <<1, 2, 4, 5, 88, 69, 78, 3, 18, 1, 6>>))])
    \* one iteration: Chunk4 holds the instruction stream of the second pass
    @@ ("iter" :>
        [iterations |-> 1,
         backup_data |-> ChunkOnly(Chunk4),
         sha256 |-> DigestResult(DigestInput(DigestNew, <<6>>))])
    \* a chunk asked for again after its bundle was loaded
    @@ ("twice" :>
        [iterations |-> 0,
         backup_data |-> ChunkOnly(Chunk1) \o ChunkOnly(Chunk2)
                            \o ChunkOnly(Chunk1),
         sha256 |-> DigestResult(DigestInput(DigestNew, <<1, 2, 3, 1, 2>>))])
    \* a checksum that is not the checksum of the content
    @@ ("bad" :>
        [iterations |-> 0,
         backup_data |-> ChunkOnly(Chunk2),
         sha256 |-> DigestResult(DigestInput(DigestNew, <<3, 3>>))])
    \* a chunk no index names
    @@ ("missing" :>
        [iterations |-> 0,
         backup_data |-> ChunkOnly(Chunk1) \o ChunkOnly(Chunk6),
         sha256 |-> DigestResult(DigestInput(DigestNew, <<1, 2, 9>>))])
    \* a chunk its bundle does not hold
    @@ ("stale" :>
        [iterations |-> 0,
         backup_data |-> ChunkOnly(Chunk5),
         sha256 |-> DigestResult(DigestInput(DigestNew, <<9>>))])
    \* an instruction with neither chunk nor bytes
    @@ ("neither" :>
        [iterations |-> 0,
         backup_data |-> BytesOnly(<<65>>) \o <<0>>,
         sha256 |-> DigestResult(DigestInput(DigestNew, <<65>>))])
    \* a stream cut short inside a record
    @@ ("cut" :>
        [iterations |-> 0,
         backup_data |-> BytesOnly(<<65>>) \o <<5, 18>>,
         sha256 |-> DigestResult(DigestInput(DigestNew, <<65>>))])

\* the names restore is called with
BackupNames ==
    {"", "b", "/b", "/iter", "/twice", "/bad", "/missing", "/stale",
     "/neither", "/cut", "/nofile"}

----------------------------------------------------------------------------
(* follow_instruction_async_async: the job of one instruction *)

NoJob == [some |-> FALSE, req |-> 0, lit |-> << >>, err |-> ""]

NeitherError == "Instruction with neither chunk or bytes"

\* the outer future of a job is done (Ok or Err)
FutureJobReady(reqs, job) ==
    /\ job.some
    /\ job.req # 0 => reqs[job.req].outer \in {"ready", "failed"}

FutureJobError(reqs, job) ==
    IF job.req = 0 THEN job.err
    ELSE IF reqs[job.req].outer = "failed" THEN reqs[job.req].outer_err
    ELSE ""

\* the inner future of a job is done (Ok or Err)
ChunkJobReady(reqs, job) ==
    /\ job.some
    /\ job.req # 0 => reqs[job.req].inner_res \in {"ok", "err"}

ChunkJobError(reqs, job) ==
    IF job.req # 0 /\ reqs[job.req].inner_res = "err"
    THEN reqs[job.req].inner_err
    ELSE ""

\* the bytes of a resolved job: the chunk first, then the literal bytes
ChunkJobData(reqs, job) ==
    IF job.req = 0 THEN job.lit
    ELSE reqs[job.req].inner_data \o job.lit

\* the scheduler state after the instruction's chunk request, and its job
FollowInstructionAsyncAsync(st, instruction) ==
    IF instruction.has_chunk_to_emit
    THEN LET r == Len(st.reqs) + 1
             fresh == [st EXCEPT !.reqs = Append(@, NoRequest)]
         IN [st |-> GetChunkAsyncAsyncReal(fresh, r, instruction.chunk_to_emit),
             job |-> [some |-> TRUE, req |-> r,
                      lit |-> IF instruction.has_bytes_to_emit
                              THEN instruction.bytes_to_emit ELSE << >>,
                      err |-> ""]]
    ELSE IF instruction.has_bytes_to_emit
    THEN [st |-> st,
          job |-> [some |-> TRUE, req |-> 0,
                   lit |-> instruction.bytes_to_emit, err |-> ""]]
    ELSE [st |-> st,
          job |-> [some |-> TRUE, req |-> 0, lit |-> << >>,
                   err |-> NeitherError]]

----------------------------------------------------------------------------
(* restore, read_and_expand_backup and follow_instructions *)

RestoreIdle ==
    /\ r_pc = "idle"
    /\ r_result = "none"
    /\ r_error = ""
    /\ r_iterations_left = 0
    /\ r_checksum = << >>
    /\ fi_input = << >>
    /\ fi_current = NoJob
    /\ fi_next = << >>
    /\ fi_future = NoJob
    /\ fi_eof = FALSE
    /\ fi_output = << >>
    /\ sink = << >>
    /\ digest = DigestNew

\* restore returns Err (error)
RestoreReturnsErr(error) ==
    /\ r_pc' = "done"
    /\ r_result' = "err"
    /\ r_error' = error

\* a call of follow_instructions on input starts
FollowInstructionsBegins(input) ==
    /\ r_pc' = "follow"
    /\ fi_input' = input
    /\ fi_current' = NoJob
    /\ fi_next' = << >>
    /\ fi_future' = NoJob
    /\ fi_eof' = FALSE
    /\ fi_output' = << >>
    /\ digest' = DigestNew

ChecksumError(expected, calculated) ==
    "Expected sha256 checksum " \o ToHex(expected)
        \o " but calculated " \o ToHex(calculated)

\* restore up to the first follow_instructions call
RestoreCall ==
    /\ RestoreFrame
    /\ r_pc = "idle"
    /\ UNCHANGED << max_threads, bundles_loading, bundles_to_load,
                    bundles_to_load_list, tasks, cache, requests,
                    first_request_order, r_name, sink >>
    /\ IF r_name = ""
       THEN /\ RestoreReturnsErr("Backup name must not be empty")
            /\ UNCHANGED << master_index, r_iterations_left, r_checksum,
                            fi_input, fi_current, fi_next, fi_future, fi_eof,
                            fi_output, digest >>
       ELSE IF SubSeq(r_name, 1, 1) # "/"
       THEN /\ RestoreReturnsErr("Backup name must begin with '/'")
            /\ UNCHANGED << master_index, r_iterations_left, r_checksum,
                            fi_input, fi_current, fi_next, fi_future, fi_eof,
                            fi_output, digest >>
       ELSE /\ master_index' =
                IF master_index.is_some THEN master_index
                ELSE [is_some |-> TRUE,
                      map |-> LoadIndexesReal(
                                EmptyMap, DOMAIN BundleFiles, IndexFiles)]
            /\ LET file == SubSeq(r_name, 2, Len(r_name))
               IN IF file \notin DOMAIN BackupFiles
                  THEN /\ RestoreReturnsErr("No such file or directory")
                       /\ UNCHANGED << r_iterations_left, r_checksum, fi_input,
                                       fi_current, fi_next, fi_future, fi_eof,
                                       fi_output, digest >>
                  ELSE /\ r_iterations_left' = BackupFiles[file].iterations
                       /\ r_checksum' = BackupFiles[file].sha256
                       /\ FollowInstructionsBegins(BackupFiles[file].backup_data)
                       /\ UNCHANGED << r_result, r_error >>

\* the loop's first part: read the next instruction when there is room
FollowLoadNext ==
    /\ RestoreFrame
    /\ r_pc = "follow"
    /\ ~ fi_future.some
    /\ ~ fi_eof
    /\ UNCHANGED << max_threads, master_index, r_name, r_iterations_left,
                    r_checksum, fi_current, fi_next, fi_output, sink, digest >>
    /\ IF fi_input = << >>
       THEN /\ fi_eof' = TRUE
            /\ UNCHANGED << bundles_loading, bundles_to_load,
                            bundles_to_load_list, tasks, cache, requests,
                            first_request_order, r_pc, r_result, r_error,
                            fi_input, fi_future >>
       ELSE LET message == ReadMessage(fi_input)
            IN IF ~ message.instruction.ok
               THEN /\ RestoreReturnsErr(ReadMessageError)
                    /\ UNCHANGED << bundles_loading, bundles_to_load,
                                    bundles_to_load_list, tasks, cache,
                                    requests, first_request_order, fi_input,
                                    fi_future, fi_eof >>
               ELSE LET started ==
                            FollowInstructionAsyncAsync(
                                CurState, message.instruction)
                    IN /\ SetState(started.st)
                       /\ fi_future' = started.job
                       /\ fi_input' = message.rest
                       /\ UNCHANGED << r_pc, r_result, r_error, fi_eof >>

\* current_chunk_job as the loop sees it after `next_chunk_jobs.pop_front ()`
CurrentJob ==
    IF ~ fi_current.some /\ fi_next # << >> THEN Head(fi_next) ELSE fi_current

RemainingJobs ==
    IF ~ fi_current.some /\ fi_next # << >> THEN Tail(fi_next) ELSE fi_next

\* the loop is past its first part
FollowWaits ==
    /\ r_pc = "follow"
    /\ fi_future.some \/ fi_eof

\* Write::write on the target of this pass: the temp_output cursor of an
\* expansion takes all the bytes, the target of restore any number of them
WriteAccepts(data) ==
    IF r_iterations_left > 0 THEN {Len(data)} ELSE 0 .. Len(data)

\* select_all yields the current chunk job: JobTarget::Chunk
FollowEmitChunk ==
    /\ RestoreFrame
    /\ FollowWaits
    /\ ChunkJobReady(requests, CurrentJob)
    /\ ChunkJobError(requests, CurrentJob) = ""
    /\ LET data == ChunkJobData(requests, CurrentJob)
       IN /\ digest' = DigestInput(digest, data)
          /\ \E accepted \in WriteAccepts(data) :
                IF r_iterations_left > 0
                THEN /\ fi_output' = fi_output \o SubSeq(data, 1, accepted)
                     /\ sink' = sink
                ELSE /\ sink' = sink \o SubSeq(data, 1, accepted)
                     /\ fi_output' = fi_output
    /\ fi_current' = NoJob
    /\ fi_next' = RemainingJobs
    /\ UNCHANGED << sched_vars, r_name, r_pc, r_result, r_error,
                    r_iterations_left, r_checksum, fi_input, fi_future,
                    fi_eof >>

\* Write::write on the target fails after the digest took the bytes
FollowWriteFails(error) ==
    /\ RestoreFrame
    /\ FollowWaits
    /\ ChunkJobReady(requests, CurrentJob)
    /\ ChunkJobError(requests, CurrentJob) = ""
    /\ r_iterations_left = 0
    /\ digest' = DigestInput(digest, ChunkJobData(requests, CurrentJob))
    /\ fi_current' = NoJob
    /\ fi_next' = RemainingJobs
    /\ RestoreReturnsErr(error)
    /\ UNCHANGED << sched_vars, r_name, r_iterations_left, r_checksum,
                    fi_input, fi_future, fi_eof, fi_output, sink >>

\* select_all yields the future chunk job: JobTarget::FutureChunk
FollowQueueChunk ==
    /\ RestoreFrame
    /\ FollowWaits
    /\ FutureJobReady(requests, fi_future)
    /\ FutureJobError(requests, fi_future) = ""
    /\ fi_current' = CurrentJob
    /\ fi_next' = Append(RemainingJobs, fi_future)
    /\ fi_future' = NoJob
    /\ UNCHANGED << sched_vars, r_name, r_pc, r_result, r_error,
                    r_iterations_left, r_checksum, fi_input, fi_eof,
                    fi_output, sink, digest >>

\* select_all yields an error: follow_instructions and restore return it
FollowJobFails ==
    /\ RestoreFrame
    /\ FollowWaits
    /\ \/ /\ ChunkJobReady(requests, CurrentJob)
          /\ ChunkJobError(requests, CurrentJob) # ""
          /\ RestoreReturnsErr(ChunkJobError(requests, CurrentJob))
       \/ /\ FutureJobReady(requests, fi_future)
          /\ FutureJobError(requests, fi_future) # ""
          /\ RestoreReturnsErr(FutureJobError(requests, fi_future))
    /\ fi_current' = CurrentJob
    /\ fi_next' = RemainingJobs
    /\ UNCHANGED << sched_vars, r_name, r_iterations_left, r_checksum,
                    fi_input, fi_future, fi_eof, fi_output, sink, digest >>

\* the sha256 comparison that ends restore
VerifyChecksum(expected, calculated) == expected = calculated

\* no job is left: follow_instructions returns Ok and its caller goes on
FollowReturnsOk ==
    /\ RestoreFrame
    /\ FollowWaits
    /\ ~ CurrentJob.some
    /\ ~ fi_future.some
    /\ UNCHANGED << sched_vars, r_name, r_checksum, sink >>
    /\ IF r_iterations_left > 0
       THEN /\ r_iterations_left' = r_iterations_left - 1
            /\ FollowInstructionsBegins(fi_output)
            /\ UNCHANGED << r_result, r_error >>
       ELSE /\ r_pc' = "done"
            /\ IF VerifyChecksum(r_checksum, DigestResult(digest))
               THEN r_result' = "ok" /\ r_error' = ""
               ELSE /\ r_result' = "err"
                    /\ r_error' = ChecksumError(r_checksum, DigestResult(digest))
            /\ UNCHANGED << r_iterations_left, fi_input, fi_current, fi_next,
                            fi_future, fi_eof, fi_output, digest >>

----------------------------------------------------------------------------
(* AtomicFileWriter: staged creations and deletes of one maintenance
   transaction over the repository directory *)

\* paths are << directory, file name >>
TempDir == "tmp"

LiveDirs == {"bundles", "index", "backups"}

BundlePath1 == << "bundles", "b1" >>
BundlePath2 == << "bundles", "b2" >>
IndexPath1 == << "index", "i1" >>

\* temp_file_name: 16 random characters. The names are told apart only by
\* being different, so the first name that no file in tmp/ bears stands for
\* any of them; a repeat of a name still in tmp/ is not modelled
TempNames == 1 .. MaxStaged

FreshTempName(files) ==
    CHOOSE n \in TempNames :
        /\ << TempDir, n >> \notin DOMAIN files
        /\ \A k \in 1 .. n - 1 : << TempDir, k >> \in DOMAIN files

\* target paths handed to create: an existing bundle and a file in a
\* directory that does not exist yet
TargetPaths == {BundlePath1, << "backups", "x" >>}

\* paths handed to delete
DeletePaths == {IndexPath1, BundlePath2}

OldFile == [data |-> "old", synced |-> TRUE, from |-> 0]

NewFile(temp_name) == [data |-> "empty", synced |-> FALSE, from |-> temp_name]

\* the repository directory after AtomicFileWriter::new: tmp/ exists
InitialFs ==
    [dirs |-> {TempDir, "bundles", "index"},
     files |-> (BundlePath1 :> OldFile) @@ (BundlePath2 :> OldFile)
                @@ (IndexPath1 :> OldFile)]

\* the files under bundles/, index/ and backups/
LiveTree(f) ==
    [dirs |-> f.dirs \cap LiveDirs,
     files |-> [p \in {q \in DOMAIN f.files : q[1] \in LiveDirs} |-> f.files[p]]]

TmpFiles(f) == {p \in DOMAIN f.files : p[1] = TempDir}

\* mutant: the file is created at its target
TempFilePath_InPlace(temp_file_name, target_path) == target_path

\* temp_dir_path.join (temp_file_name)
TempFilePath(temp_file_name, target_path) == << TempDir, temp_file_name >>

NewWriter ==
    [temp_files |-> << >>, delete_files |-> << >>, pc |-> "idle", i |-> 0,
     result |-> "none", lock_fd |-> "locked"]

\* history: the operations of the running commit in order, the live tree
\* at the last create or delete since the last commit began, and what was
\* staged when the last commit began
NoWriterHistory ==
    [log |-> << >>, pending |-> FALSE, at_call |-> LiveTree(InitialFs),
     staged |-> << >>, deletes |-> << >>]

\* the caller of the writer: gc-bundles, which commits once for every bundle
\* it compacts, or an operation that stages any creations and deletes and
\* commits them once
AnyCaller ==
    [op |-> "any", pc |-> "any", to_delete |-> << >>, to_compact |-> << >>]

GcNextBundle(g) ==
    IF g.to_compact = << >> THEN [g EXCEPT !.pc = "done"]
    ELSE [g EXCEPT !.pc = "read"]

GcStart(bundles_to_delete, bundles_to_compact) ==
    LET g == [op |-> "gc_bundles", pc |-> "delete",
              to_delete |-> bundles_to_delete,
              to_compact |-> bundles_to_compact]
    IN IF bundles_to_delete = << >> THEN GcNextBundle(g) ELSE g

\* the classification handed to delete_bundles and compact_bundles
GcPlans ==
    {GcStart(d, c) :
        d \in {<< >>, << BundlePath2 >>},
        c \in {<< BundlePath1 >>, << BundlePath1, BundlePath2 >>}}
    \ {GcStart(<< BundlePath2 >>, << BundlePath1, BundlePath2 >>)}

WriterIdle ==
    /\ fs = InitialFs
    /\ afw = NewWriter
    /\ afw_hist = NoWriterHistory
    /\ maint = AnyCaller

WriterFrame ==
    UNCHANGED << sched_vars, restore_vars, open_vars, index_vars, lock_vars,
                 convert_vars, more_vars >>

\* where the caller is; a caller of kind "any" may call anything until it
\* has committed
CallerAt(step) ==
    \/ maint.op = "any" /\ maint.pc = "any"
    \/ maint.op = "gc_bundles" /\ maint.pc = step

\* the caller after a call that returned: gc-bundles passes every error up
\* with `?`
CallerAfter(g, ok, next_pc) ==
    IF g.op = "any" THEN g
    ELSE IF ok THEN [g EXCEPT !.pc = next_pc] ELSE [g EXCEPT !.pc = "abort"]

CallerAfterCommit(g, ok) ==
    IF g.op = "any" THEN [g EXCEPT !.pc = "committed"]
    ELSE IF ok THEN GcNextBundle([g EXCEPT !.to_compact = Tail(@)])
    ELSE [g EXCEPT !.pc = "abort"]

\* history: the live tree as the first create or delete of a transaction
\* finds it
Calling(hist) ==
    IF hist.pending THEN hist
    ELSE [hist EXCEPT !.pending = TRUE, !.at_call = LiveTree(fs)]

WriterAlive == afw.pc \notin {"dropped", "killed"}

\* AtomicFileWriter::create
Create(temp_file_name, target_path, create_ok) ==
    /\ afw.pc = "idle"
    /\ CallerAt("create")
    /\ maint.op = "gc_bundles" => target_path = Head(maint.to_compact)
    /\ maint.op = "any" => target_path \in TargetPaths
    /\ Len(afw.temp_files) < MaxStaged
    /\ \E n \in TempNames : << TempDir, n >> \notin DOMAIN fs.files
    /\ temp_file_name = FreshTempName(fs.files)
    /\ LET temp_file_path == TempFilePath(temp_file_name, target_path)
           created == create_ok /\ temp_file_path[1] \in fs.dirs
       IN /\ fs' = IF created
                   THEN [fs EXCEPT !.files =
                            [p \in DOMAIN @ \cup {temp_file_path} |->
                                IF p = temp_file_path
                                THEN NewFile(temp_file_name) ELSE @[p]]]
                   ELSE fs
          /\ afw' = IF created
                    THEN [afw EXCEPT !.temp_files =
                            Append(@, << temp_file_name, target_path >>)]
                    ELSE afw
          /\ afw_hist' = Calling(afw_hist)
          /\ maint' = CallerAfter(maint, created, "write")
    /\ WriterFrame

\* the caller writes through the File that create returned
WriteStaged(k, write_ok) ==
    /\ afw.pc = "idle"
    /\ CallerAt("write")
    /\ k \in DOMAIN afw.temp_files
    /\ k = Len(afw.temp_files)
    /\ LET temp_file_path ==
            TempFilePath(afw.temp_files[k][1], afw.temp_files[k][2])
       IN /\ temp_file_path \in DOMAIN fs.files
          /\ fs.files[temp_file_path].data = "empty"
          /\ fs' = IF write_ok
                   THEN [fs EXCEPT !.files[temp_file_path].data = "written"]
                   ELSE fs
    /\ maint' = CallerAfter(maint, write_ok, "commit")
    /\ UNCHANGED << afw, afw_hist >>
    /\ WriterFrame

\* AtomicFileWriter::delete
Delete(delete_path) ==
    /\ afw.pc = "idle"
    /\ maint.op = "any" /\ maint.pc = "any"
    /\ Len(afw.delete_files) < MaxDeletes
    /\ afw' = [afw EXCEPT !.delete_files = Append(@, delete_path)]
    /\ afw_hist' = Calling(afw_hist)
    /\ UNCHANGED << fs, maint >>
    /\ WriterFrame

\* the loops of commit and what each of them walks over
PhaseList(a, phase) ==
    IF phase = "unlink" THEN a.delete_files ELSE a.temp_files

\* mutant: the delete targets are unlinked before the renames
NextPhase_UnlinkFirst(phase) ==
    CASE phase = "sync" -> "unlink"
      [] phase = "unlink" -> "rename"
      [] OTHER -> "return"

\* sync all temp files, rename temp files, delete files, return
NextPhase(phase) ==
    CASE phase = "sync" -> "rename"
      [] phase = "rename" -> "unlink"
      [] OTHER -> "return"

\* temp_files.clear () after the rename loop, delete_files.clear () after
\* the delete loop
LeavePhase(a, phase) ==
    CASE phase = "rename" -> [a EXCEPT !.temp_files = << >>]
      [] phase = "unlink" -> [a EXCEPT !.delete_files = << >>]
      [] OTHER -> a

\* a loop over an empty list is passed at once; Ok (()) after the last loop
RECURSIVE EnterPhase(_, _)
EnterPhase(a, phase) ==
    IF phase = "return"
    THEN [a EXCEPT !.pc = "idle", !.i = 0, !.result = "ok"]
    ELSE IF PhaseList(a, phase) = << >>
         THEN EnterPhase(LeavePhase(a, phase), NextPhase(phase))
         ELSE [a EXCEPT !.pc = phase, !.i = 1]

\* the end of one iteration
CommitStepDone(a) ==
    IF a.i < Len(PhaseList(a, a.pc)) THEN [a EXCEPT !.i = @ + 1]
    ELSE EnterPhase(LeavePhase(a, a.pc), NextPhase(a.pc))

\* an early return through `?`: both lists stay as they are
CommitFails(a) == [a EXCEPT !.pc = "idle", !.i = 0, !.result = "err"]

Logged(hist, entry) == [hist EXCEPT !.log = Append(@, entry)]

\* the writer and its caller after one iteration of a commit loop
CommitStep(step_ok) ==
    /\ afw' = IF step_ok THEN CommitStepDone(afw) ELSE CommitFails(afw)
    /\ maint' = IF afw'.pc = "idle"
                THEN CallerAfterCommit(maint, afw'.result = "ok")
                ELSE maint

\* AtomicFileWriter::commit is called
CommitBegins ==
    /\ afw.pc = "idle"
    /\ CallerAt("commit")
    /\ afw' = EnterPhase([afw EXCEPT !.result = "none"], "sync")
    /\ afw_hist' = [afw_hist EXCEPT
                        !.log = << >>, !.pending = FALSE,
                        !.staged = afw.temp_files,
                        !.deletes = afw.delete_files]
    /\ maint' = IF afw'.pc = "idle" THEN CallerAfterCommit(maint, TRUE)
                ELSE maint
    /\ UNCHANGED fs
    /\ WriterFrame

\* File::open and sync_all of one temp file
CommitSync(sync_ok) ==
    /\ afw.pc = "sync"
    /\ LET temp_file_name == afw.temp_files[afw.i][1]
           temp_file_path == << TempDir, temp_file_name >>
           synced == sync_ok /\ temp_file_path \in DOMAIN fs.files
       IN /\ fs' = IF synced
                   THEN [fs EXCEPT !.files[temp_file_path].synced = TRUE]
                   ELSE fs
          /\ afw_hist' = IF synced
                         THEN Logged(afw_hist, << "sync", temp_file_name >>)
                         ELSE afw_hist
          /\ CommitStep(synced)
    /\ WriterFrame

\* rename, or copy and delete when rename fails: the file is moved, or the
\* call fails with nothing done, or it fails after the copy
RenameOutcomes == {"renamed", "copied", "failed"}

RenameOrCopyAndDelete(files, source, target, outcome) ==
    IF source \notin DOMAIN files \/ outcome = "failed" THEN files
    ELSE [p \in (DOMAIN files \cup {target})
                    \ (IF outcome = "renamed" THEN {source} ELSE {}) |->
            IF p = target THEN files[source] ELSE files[p]]

\* fs::create_dir_all of the parent, then rename_or_copy_and_delete
CommitRename(mkdir_ok, outcome) ==
    /\ afw.pc = "rename"
    /\ LET temp_file_name == afw.temp_files[afw.i][1]
           target_path == afw.temp_files[afw.i][2]
           temp_file_path == << TempDir, temp_file_name >>
           parent_dir == target_path[1]
           made == mkdir_ok
           dirs == IF made THEN fs.dirs \cup {parent_dir} ELSE fs.dirs
           files == IF made
                    THEN RenameOrCopyAndDelete(
                            fs.files, temp_file_path, target_path, outcome)
                    ELSE fs.files
           renamed == /\ made
                      /\ outcome = "renamed"
                      /\ temp_file_path \in DOMAIN fs.files
       IN /\ mkdir_ok \/ outcome = "failed"
          /\ fs' = [dirs |-> dirs, files |-> files]
          /\ afw_hist' =
                IF files # fs.files
                THEN Logged(afw_hist,
                        << IF renamed THEN "rename" ELSE "copy",
                           temp_file_name >>)
                ELSE afw_hist
          /\ CommitStep(renamed)
    /\ WriterFrame

\* fs::remove_file of one delete target
CommitUnlink(unlink_ok) ==
    /\ afw.pc = "unlink"
    /\ LET delete_file_name == afw.delete_files[afw.i]
           removed == unlink_ok /\ delete_file_name \in DOMAIN fs.files
       IN /\ fs' = IF removed
                   THEN [fs EXCEPT !.files =
                            [p \in DOMAIN @ \ {delete_file_name} |-> @[p]]]
                   ELSE fs
          /\ afw_hist' = IF removed
                         THEN Logged(afw_hist, << "unlink", delete_file_name >>)
                         ELSE afw_hist
          /\ CommitStep(removed)
    /\ WriterFrame

\* mutant: the staged temp files are left behind
RemoveStaged_None(files, temp_files) == files

\* removing the staged temp files one after the other; remove_file errors
\* are ignored
RECURSIVE RemoveStaged(_, _)
RemoveStaged(files, temp_files) ==
    IF temp_files = << >> THEN files
    ELSE RemoveStaged(
            [p \in DOMAIN files \ {<< TempDir, Head(temp_files)[1] >>} |->
                files[p]],
            Tail(temp_files))

\* Drop for AtomicFileWriterState: the caller has let go of the writer;
\* remove_dir fails on a directory that still holds a file
DropWriter ==
    /\ afw.pc = "idle"
    /\ maint.op = "any" \/ maint.pc \in {"abort", "done"}
    /\ LET files == RemoveStaged(fs.files, afw.temp_files)
           empty == \A p \in DOMAIN files : p[1] # TempDir
       IN fs' = [dirs |-> IF empty THEN fs.dirs \ {TempDir} ELSE fs.dirs,
                 files |-> files]
    /\ afw' = [afw EXCEPT !.pc = "dropped", !.lock_fd = "closed"]
    /\ UNCHANGED << afw_hist, maint >>
    /\ WriterFrame

\* the process is killed: no destructor runs, the kernel closes the lock
\* file; the lists are kept as a record of what was staged
Killed ==
    /\ WriterAlive
    /\ afw' = [afw EXCEPT !.pc = "killed", !.lock_fd = "closed"]
    /\ UNCHANGED << fs, afw_hist, maint >>
    /\ WriterFrame

\* delete_bundles: fs::remove_file of the next bundle to delete
GcDeleteBundle(remove_ok) ==
    /\ afw.pc = "idle"
    /\ maint.op = "gc_bundles" /\ maint.pc = "delete"
    /\ LET bundle_path == Head(maint.to_delete)
           removed == remove_ok /\ bundle_path \in DOMAIN fs.files
           rest == [maint EXCEPT !.to_delete = Tail(@)]
       IN /\ fs' = IF removed
                   THEN [fs EXCEPT !.files =
                            [p \in DOMAIN @ \ {bundle_path} |-> @[p]]]
                   ELSE fs
          /\ maint' = IF ~ removed THEN [maint EXCEPT !.pc = "abort"]
                      ELSE IF rest.to_delete = << >> THEN GcNextBundle(rest)
                      ELSE rest
    /\ UNCHANGED << afw, afw_hist >>
    /\ WriterFrame

\* compact_bundles: bundle_read_path of the next bundle to compact
GcReadBundle(read_ok) ==
    /\ afw.pc = "idle"
    /\ maint.op = "gc_bundles" /\ maint.pc = "read"
    /\ maint' = CallerAfter(maint,
                    read_ok /\ Head(maint.to_compact) \in DOMAIN fs.files,
                    "create")
    /\ UNCHANGED << fs, afw, afw_hist >>
    /\ WriterFrame

----------------------------------------------------------------------------
(* Maintenance processes and the repository lock: AtomicFileWriter::new,
   and the order in which each operation scans, locks and mutates *)

Procs == 1 .. MaxProcs

MaintOps ==
    << "balance_indexes", "check_backups", "gc_bundles", "gc_indexes",
       "rebuild_indexes" >>

\* the steps of each operation in the order of its code: "new" is
\* AtomicFileWriter::new (TempFileManager::new), "scan" a read of the
\* directory tree or of index, bundle or backup files, "stage" a create or
\* delete on the writer, "mutate" a direct unlink or rename in the live tree
\* TempFileManager::new takes the repository lock as AtomicFileWriter::new
\* does
TempFileManager_new == "new"

\* mutant: check-backups moves the broken backups before it has the writer
Program_MutateFirst(op) ==
    CASE op = "balance_indexes" ->
            << "scan", TempFileManager_new, "stage", "commit", "exit" >>
      [] op = "rebuild_indexes" ->
            << TempFileManager_new, "scan", "stage", "commit", "drop" >>
      [] op = "gc_indexes" ->
            << "scan", TempFileManager_new, "stage", "commit", "drop" >>
      [] op = "gc_bundles" ->
            << "new", "scan", "mutate", "stage", "commit", "drop" >>
      [] op = "check_backups" ->
            << "scan", "mutate", TempFileManager_new, "drop" >>

Program(op) ==
    CASE op = "balance_indexes" ->
            << "scan", TempFileManager_new, "stage", "commit", "exit" >>
      [] op = "rebuild_indexes" ->
            << TempFileManager_new, "scan", "stage", "commit", "drop" >>
      [] op = "gc_indexes" ->
            << "scan", TempFileManager_new, "stage", "commit", "drop" >>
      [] op = "gc_bundles" ->
            << "new", "scan", "mutate", "stage", "commit", "drop" >>
      [] op = "check_backups" ->
            << TempFileManager_new, "scan", "mutate", "drop" >>

\* the sleep_time argument of new: None where the call is written with
\* three arguments, either where the caller leaves it to the manager
SleepTimes(op) ==
    IF op \in {"rebuild_indexes", "gc_bundles"} THEN {"none"}
    ELSE {"none", "some"}

NoProc ==
    [op |-> "none", at |-> 1, new_pc |-> "none", sleep_time |-> "none",
     slept |-> FALSE, lock_fd |-> "none", writer |-> "none",
     scanned |-> "no", staged |-> 0, result |-> "none"]

\* the holders of the two locks on the lock file, and tmp/ of the repository
InitialLockFile == [flock |-> 0, fcntl |-> 0, tmp |-> FALSE, tmp_files |-> 0]

\* history: a scan made without the lock, a mutation made without the lock,
\* a mutation based on a scan that another process has outdated
NoLockHistory ==
    [scan_unlocked |-> FALSE, mutation_unlocked |-> FALSE,
     stale_mutation |-> FALSE, create_without_tmp |-> FALSE,
     tmp_removed_under_writer |-> FALSE]

LockIdle ==
    /\ maint_procs = [p \in Procs |-> NoProc]
    /\ lock_file = InitialLockFile
    /\ lock_hist = NoLockHistory

LockFrame ==
    UNCHANGED << sched_vars, restore_vars, open_vars, index_vars, writer_vars,
                 convert_vars, more_vars >>

Running(p) == maint_procs[p].result = "none" /\ maint_procs[p].op # "none"

Step(p) == Program(maint_procs[p].op)[maint_procs[p].at]

\* both locks of the process are its own
HoldsLock(file, p) == file.flock = p /\ file.fcntl = p

\* close (lock_fd), by the process or by the kernel when the process ends:
\* the locks taken through the descriptor are given up
CloseLockFd(file, p) ==
    [file EXCEPT
        !.flock = IF @ = p THEN 0 ELSE @,
        !.fcntl = IF @ = p THEN 0 ELSE @]

\* the process is over: its operation and how it ended are all that is left
Ended(proc, how) == [NoProc EXCEPT !.op = proc.op, !.result = how]

\* new returns Err: the operation passes it up before it has a writer
NewFails(p) ==
    /\ maint_procs' = [maint_procs EXCEPT ![p] = Ended(@, "err")]
    /\ lock_file' = CloseLockFd(lock_file, p)

\* libc::open of the lock file; sleep_time selects lock_non_blocking
NewOpen(p, sleep_time, open_ok) ==
    /\ Running(p) /\ Step(p) = "new"
    /\ maint_procs[p].new_pc = "none"
    /\ sleep_time \in SleepTimes(maint_procs[p].op)
    /\ maint_procs' =
        IF open_ok
        THEN [maint_procs EXCEPT
                ![p].lock_fd = "open", ![p].new_pc = "opened",
                ![p].sleep_time = sleep_time]
        ELSE [maint_procs EXCEPT ![p] = Ended(@, "err")]
    /\ UNCHANGED << lock_file, lock_hist >>
    /\ LockFrame

\* mutant: a lock is granted whoever holds it
LockGranted_Always(holder, p) == TRUE

\* flock (LOCK_EX) and fcntl (F_WRLCK) grant the lock when no other process
\* holds it
LockGranted(holder, p) == holder \in {0, p}

\* libc::flock: LOCK_EX waits until the lock is granted
NewFlock(p, flock_ok) ==
    /\ Running(p) /\ Step(p) = "new"
    /\ maint_procs[p].new_pc = "opened"
    /\ IF ~ flock_ok THEN NewFails(p)
       ELSE /\ LockGranted(lock_file.flock, p)
            /\ maint_procs' = [maint_procs EXCEPT ![p].new_pc = "flocked"]
            /\ lock_file' = [lock_file EXCEPT !.flock = p]
    /\ UNCHANGED lock_hist
    /\ LockFrame

\* LOCK_EX | LOCK_NB fails with EWOULDBLOCK: thread::sleep and continue
NewFlockSleeps(p) ==
    /\ Running(p) /\ Step(p) = "new"
    /\ maint_procs[p].new_pc = "opened"
    /\ maint_procs[p].sleep_time = "some"
    /\ ~ LockGranted(lock_file.flock, p)
    /\ ~ maint_procs[p].slept
    /\ maint_procs' = [maint_procs EXCEPT ![p].slept = TRUE]
    /\ UNCHANGED << lock_file, lock_hist >>
    /\ LockFrame

\* libc::fcntl (F_SETLKW): waits until no other process holds a write lock
NewFcntl(p, fcntl_ok) ==
    /\ Running(p) /\ Step(p) = "new"
    /\ maint_procs[p].new_pc = "flocked"
    /\ IF ~ fcntl_ok THEN NewFails(p)
       ELSE /\ LockGranted(lock_file.fcntl, p)
            /\ maint_procs' = [maint_procs EXCEPT ![p].new_pc = "locked"]
            /\ lock_file' = [lock_file EXCEPT !.fcntl = p]
    /\ UNCHANGED lock_hist
    /\ LockFrame

\* create tmp directory unless it exists; Ok (AtomicFileWriter { .. })
NewTmpDir(p, create_ok) ==
    /\ Running(p) /\ Step(p) = "new"
    /\ maint_procs[p].new_pc = "locked"
    /\ IF ~ lock_file.tmp /\ ~ create_ok THEN NewFails(p)
       ELSE /\ maint_procs' = [maint_procs EXCEPT
                    ![p].new_pc = "ready", ![p].writer = "alive",
                    ![p].at = @ + 1]
            /\ lock_file' = [lock_file EXCEPT !.tmp = TRUE]
    /\ UNCHANGED lock_hist
    /\ LockFrame

\* an error after new: `?` returns it and the writer is dropped on the way
\* out; before new there is no writer and the operation just returns
Abort(proc) ==
    IF proc.writer = "alive"
    THEN [proc EXCEPT !.at = Len(Program(proc.op))]
    ELSE Ended(proc, "err")

\* scan_index_files, scan_bundle_files, scan_backup_files, load_indexes and
\* the reads of the files found
Scan(p, scan_ok) ==
    /\ Running(p) /\ Step(p) = "scan"
    /\ maint_procs' =
        IF scan_ok
        THEN [maint_procs EXCEPT ![p].scanned = "fresh", ![p].at = @ + 1]
        ELSE [maint_procs EXCEPT ![p] = Abort(@)]
    /\ lock_hist' =
        IF scan_ok /\ ~ HoldsLock(lock_file, p)
        THEN [lock_hist EXCEPT !.scan_unlocked = TRUE]
        ELSE lock_hist
    /\ UNCHANGED lock_file
    /\ LockFrame

\* create on the writer: File::create under tmp/
Stage(p, create_ok) ==
    /\ Running(p) /\ Step(p) = "stage"
    /\ LET created == create_ok /\ lock_file.tmp
       IN /\ maint_procs' =
                IF created
                THEN [maint_procs EXCEPT ![p].staged = @ + 1, ![p].at = @ + 1]
                ELSE [maint_procs EXCEPT ![p] = Abort(@)]
          /\ lock_file' =
                IF created THEN [lock_file EXCEPT !.tmp_files = @ + 1]
                ELSE lock_file
    /\ lock_hist' =
        IF lock_file.tmp THEN lock_hist
        ELSE [lock_hist EXCEPT !.create_without_tmp = TRUE]
    /\ LockFrame

\* history of a change of the live tree by p
Mutated(hist, p) ==
    [hist EXCEPT
        !.mutation_unlocked = @ \/ ~ HoldsLock(lock_file, p),
        !.stale_mutation = @ \/ maint_procs[p].scanned # "fresh"]

\* p has changed the live tree: what the others have scanned is out of date
Outdated(procs, p) ==
    [q \in Procs |->
        IF q # p /\ procs[q].scanned = "fresh"
        THEN [procs[q] EXCEPT !.scanned = "stale"]
        ELSE procs[q]]

\* the direct unlinks of gc-bundles, the direct renames of check-backups
Mutate(p, mutate_ok) ==
    /\ Running(p) /\ Step(p) = "mutate"
    /\ maint_procs' =
        IF mutate_ok
        THEN [Outdated(maint_procs, p) EXCEPT ![p].at = @ + 1]
        ELSE [maint_procs EXCEPT ![p] = Abort(@)]
    /\ lock_hist' = IF mutate_ok THEN Mutated(lock_hist, p) ELSE lock_hist
    /\ UNCHANGED lock_file
    /\ LockFrame

\* commit on the writer: the staged files leave tmp/ for the live tree; an
\* error may come after some of the renames
Commit(p, commit_ok, changed) ==
    /\ Running(p) /\ Step(p) = "commit"
    /\ commit_ok => changed
    /\ LET procs == IF changed THEN Outdated(maint_procs, p) ELSE maint_procs
       IN maint_procs' =
            IF commit_ok
            THEN [procs EXCEPT ![p].at = @ + 1, ![p].staged = 0]
            ELSE [procs EXCEPT ![p] = Abort(@)]
    /\ lock_file' =
        IF commit_ok
        THEN [lock_file EXCEPT !.tmp_files = @ - maint_procs[p].staged]
        ELSE lock_file
    /\ lock_hist' = IF changed THEN Mutated(lock_hist, p) ELSE lock_hist
    /\ LockFrame

\* mutant: the lock fd is closed before the temp files and tmp/ are removed
DropSteps_CloseFirst == << "close", "remove" >>

\* the two parts of Drop for AtomicFileWriterState, in the order they run
DropSteps == << "remove", "close" >>

\* the operation returns and the writer is dropped: the staged temp files
\* are removed by name, then tmp/ if it is empty (remove_dir fails on a
\* directory with entries, and the error is ignored), then the lock fd is
\* closed; other processes run between the two parts
Drop(p) ==
    /\ Running(p) /\ Step(p) = "drop"
    /\ LET k == IF maint_procs[p].writer = "alive" THEN 1 ELSE 2
           removes == DropSteps[k] = "remove"
           left == lock_file.tmp_files - maint_procs[p].staged
           removes_dir == removes /\ lock_file.tmp /\ left = 0
       IN /\ lock_file' =
                IF removes
                THEN [lock_file EXCEPT
                        !.tmp_files = left,
                        !.tmp = IF left = 0 THEN FALSE ELSE @]
                ELSE CloseLockFd(lock_file, p)
          /\ maint_procs' =
                IF k = 2
                THEN [maint_procs EXCEPT ![p] = Ended(@, "returned")]
                ELSE [maint_procs EXCEPT
                        ![p].writer = "dropping",
                        ![p].staged = IF removes THEN 0 ELSE @]
          /\ lock_hist' =
                IF removes_dir
                    /\ \E q \in Procs \ {p} : maint_procs[q].writer = "alive"
                THEN [lock_hist EXCEPT !.tmp_removed_under_writer = TRUE]
                ELSE lock_hist
    /\ LockFrame

\* process::exit, or the process is killed: no destructor runs, the kernel
\* closes the lock fd
ProcessEnds(p, how) ==
    /\ Running(p)
    /\ how = "exit" => Step(p) = "exit"
    /\ maint_procs' = [maint_procs EXCEPT ![p] = Ended(@, how)]
    /\ lock_file' = CloseLockFd(lock_file, p)
    /\ UNCHANGED lock_hist
    /\ LockFrame

----------------------------------------------------------------------------
(* The index maintenance operations: balance-indexes, rebuild-indexes and
   gc-indexes over the index directory, the bundle files and the backups *)

\* the orders in which read_dir can list the members of a set
Orders(S) ==
    {order \in [1 .. Cardinality(S) -> S] :
        \A i, j \in 1 .. Cardinality(S) : order[i] = order[j] => i = j}

\* the (bundle_id, chunk_id, size) triples of a sequence of index entries
EntryTriples(entries) ==
    UNION {{<< entries[i].bundle_id, entries[i].chunks[j].id,
               entries[i].chunks[j].size >> : j \in DOMAIN entries[i].chunks} :
            i \in DOMAIN entries}

\* the logical index of an index directory
LogicalIndex(dir) == UNION {EntryTriples(dir[name]) : name \in DOMAIN dir}

\* the index entries of an index directory
DirEntries(dir) == UNION {Range(dir[name]) : name \in DOMAIN dir}

NoFlush == [entries_buffer |-> << >>, created |-> << >>]

\* flush_index_entries: a new index file holding the buffer; buffer.clear ()
FlushIndexEntries(st) ==
    [entries_buffer |-> << >>,
     created |-> Append(st.created, st.entries_buffer)]

\* mutant: the buffer is flushed one entry late
PushEntry_Late(st, entry, k) ==
    LET pushed == [st EXCEPT !.entries_buffer = Append(@, entry)]
    IN IF Len(pushed.entries_buffer) = k + 1 THEN FlushIndexEntries(pushed)
       ELSE pushed

\* entries_buffer.push (entry), and the flush when the buffer holds
\* bundles_per_index entries
PushEntry(st, entry, k) ==
    LET pushed == [st EXCEPT !.entries_buffer = Append(@, entry)]
    IN IF Len(pushed.entries_buffer) = k THEN FlushIndexEntries(pushed)
       ELSE pushed

RECURSIVE PushEntries(_, _, _)
PushEntries(st, entries, k) ==
    IF entries = << >> THEN st
    ELSE PushEntries(PushEntry(st, Head(entries), k), Tail(entries), k)

\* mutant: the entries left in the buffer are not written
FlushLeftover_Never(st) == st

\* if ! entries_buffer.is_empty () { flush_index_entries (..) }
FlushLeftover(st) ==
    IF st.entries_buffer # << >> THEN FlushIndexEntries(st) ELSE st

\* the loop of balance_indexes over the old index files in scan order
RECURSIVE BalanceLoop(_, _, _, _)
BalanceLoop(st, dir, old_indexes, k) ==
    IF old_indexes = << >> THEN st
    ELSE BalanceLoop(PushEntries(st, dir[Head(old_indexes)], k),
                     dir, Tail(old_indexes), k)

\* the index files balance_indexes creates
BalanceCreates(dir, old_indexes, k) ==
    FlushLeftover(BalanceLoop(NoFlush, dir, old_indexes, k)).created

\* the chunk records of a bundle's info, in the order of the chunk ids
RECURSIVE ChunkRecords(_, _)
ChunkRecords(bundle, chunk_ids) ==
    IF chunk_ids = {} THEN << >>
    ELSE LET first ==
                CHOOSE c \in chunk_ids :
                    \A d \in chunk_ids : c[IdSize] <= d[IdSize]
         IN << [id |-> first, size |-> Len(bundle[first])] >>
                \o ChunkRecords(bundle, chunk_ids \ {first})

\* read_bundle_info: the info record of a bundle file
ReadBundleInfo(bundle_id) ==
    ChunkRecords(BundleFiles[bundle_id], DOMAIN BundleFiles[bundle_id])

\* mutant: the entry takes the chunk list of no bundle
RebuildEntry_Empty(bundle_id) == [bundle_id |-> bundle_id, chunks |-> << >>]

\* the index entry rebuild_indexes makes of a bundle file
RebuildEntry(bundle_id) ==
    [bundle_id |-> bundle_id, chunks |-> ReadBundleInfo(bundle_id)]

\* mutant: the first bundle file of the scan gets no entry
RebuildLoop_SkipFirst(st, bundle_ids, k) ==
    IF bundle_ids = << >> THEN st
    ELSE PushEntries(st,
            [i \in 1 .. Len(bundle_ids) - 1 |-> RebuildEntry(bundle_ids[i + 1])],
            k)

\* the loop of rebuild_indexes over the bundle files in scan order
RECURSIVE RebuildLoop(_, _, _)
RebuildLoop(st, bundle_ids, k) ==
    IF bundle_ids = << >> THEN st
    ELSE RebuildLoop(PushEntry(st, RebuildEntry(Head(bundle_ids)), k),
                     Tail(bundle_ids), k)

\* the index files rebuild_indexes creates
RebuildCreates(bundle_ids, k) ==
    FlushLeftover(RebuildLoop(NoFlush, bundle_ids, k)).created

\* the names of n new index files: random names, taken to differ from every
\* name in use
RECURSIVE NewIndexNames(_, _)
NewIndexNames(used, n) ==
    IF n = 0 THEN << >>
    ELSE LET name == CHOOSE m \in 1 .. Cardinality(used) + 1 : m \notin used
         IN << name >> \o NewIndexNames(used \cup {name}, n - 1)

\* commit: the created files are renamed into index/, the delete targets
\* are unlinked
CommitIndexes(dir, created, names, deleted) ==
    [name \in (DOMAIN dir \ deleted) \cup Range(names) |->
        IF name \in Range(names)
        THEN created[CHOOSE i \in DOMAIN names : names[i] = name]
        ELSE dir[name]]

\* the entries of the index files in load order
RECURSIVE ReadIndexes(_, _)
ReadIndexes(dir, order) ==
    IF order = << >> THEN << >>
    ELSE << dir[Head(order)] >> \o ReadIndexes(dir, Tail(order))

\* load_indexes over an index directory whose files are inserted in order
LoadIndexDir(bundle_ids, dir, order) ==
    [is_some |-> TRUE,
     map |-> LoadIndexesReal(EmptyMap, bundle_ids, ReadIndexes(dir, order))]

\* collect_chunks_from_instructions
RECURSIVE CollectChunksFromInstructions(_, _)
CollectChunksFromInstructions(chunk_ids, instructions) ==
    IF instructions = << >> THEN [ok |-> TRUE, chunk_ids |-> chunk_ids]
    ELSE LET message == ReadMessage(instructions)
         IN IF ~ message.instruction.ok
            THEN [ok |-> FALSE, chunk_ids |-> chunk_ids]
            ELSE CollectChunksFromInstructions(
                    IF message.instruction.has_chunk_to_emit
                    THEN chunk_ids \cup {message.instruction.chunk_to_emit}
                    ELSE chunk_ids,
                    message.rest)

\* get_chunk under a master index: the chunk is indexed and its bundle
\* file holds it
ChunkReadable(bundle_ids, master, chunk_id) ==
    /\ chunk_id \in DOMAIN master.map
    /\ master.map[chunk_id].bundle_id \in bundle_ids
    /\ chunk_id \in DOMAIN BundleFiles[master.map[chunk_id].bundle_id]

\* follow_instructions into a cursor: chunk bytes, then literal bytes, for
\* every instruction; an unreadable record or chunk is an error
RECURSIVE FollowIntoCursor(_, _, _, _)
FollowIntoCursor(bundle_ids, master, input, output) ==
    IF input = << >> THEN [ok |-> TRUE, output |-> output]
    ELSE LET message == ReadMessage(input)
             chunk_id == message.instruction.chunk_to_emit
         IN IF ~ message.instruction.ok THEN [ok |-> FALSE, output |-> output]
            ELSE IF message.instruction.has_chunk_to_emit
            THEN IF ~ ChunkReadable(bundle_ids, master, chunk_id)
                 THEN [ok |-> FALSE, output |-> output]
                 ELSE FollowIntoCursor(bundle_ids, master, message.rest,
                        output
                        \o BundleFiles[master.map[chunk_id].bundle_id][chunk_id]
                        \o message.instruction.bytes_to_emit)
            ELSE FollowIntoCursor(bundle_ids, master, message.rest,
                    output \o message.instruction.bytes_to_emit)

\* the iterations of collect_chunks_from_backup
RECURSIVE CollectIterations(_, _, _, _, _)
CollectIterations(bundle_ids, master, chunk_ids, input, iterations) ==
    IF iterations = 0 THEN [ok |-> TRUE, chunk_ids |-> chunk_ids]
    ELSE LET result == FollowIntoCursor(bundle_ids, master, input, << >>)
             collected ==
                CollectChunksFromInstructions(chunk_ids, result.output)
         IN IF ~ result.ok \/ ~ collected.ok
            THEN [ok |-> FALSE, chunk_ids |-> chunk_ids]
            ELSE CollectIterations(bundle_ids, master, collected.chunk_ids,
                                   result.output, iterations - 1)

\* collect_chunks_from_backup
CollectChunksFromBackup(bundle_ids, master, chunk_ids, backup_file) ==
    LET backup_info == BackupFiles[backup_file]
        collected ==
            CollectChunksFromInstructions(chunk_ids, backup_info.backup_data)
    IN IF ~ collected.ok THEN collected
       ELSE CollectIterations(bundle_ids, master, collected.chunk_ids,
                              backup_info.backup_data, backup_info.iterations)

\* the loop of gc_indexes over the backup files
RECURSIVE CollectBackups(_, _, _, _)
CollectBackups(bundle_ids, master, chunk_ids, backup_files) ==
    IF backup_files = {} THEN [ok |-> TRUE, chunk_ids |-> chunk_ids]
    ELSE LET backup_file == CHOOSE f \in backup_files : TRUE
             collected ==
                CollectChunksFromBackup(bundle_ids, master, chunk_ids,
                                        backup_file)
         IN IF ~ collected.ok THEN collected
            ELSE CollectBackups(bundle_ids, master, collected.chunk_ids,
                                backup_files \ {backup_file})

\* every chunk record of the index file is referenced by a backup
AllReferenced(entries, backup_chunk_ids) ==
    \A i \in DOMAIN entries : \A j \in DOMAIN entries[i].chunks :
        entries[i].chunks[j].id \in backup_chunk_ids

\* the bundle has a referenced chunk
AnyReferenced(entry, backup_chunk_ids) ==
    \E j \in DOMAIN entry.chunks : entry.chunks[j].id \in backup_chunk_ids

\* mutant: the new entry keeps the first chunk record only
GcEntry_FirstOnly(entry, backup_chunk_ids) ==
    [bundle_id |-> entry.bundle_id, chunks |-> SubSeq(entry.chunks, 1, 1)]

\* the new index entry of a bundle: its referenced chunk records
GcEntry(entry, backup_chunk_ids) ==
    LET Referenced(record) == record.id \in backup_chunk_ids
    IN [bundle_id |-> entry.bundle_id,
        chunks |-> SelectSeq(entry.chunks, Referenced)]

\* the rewrite of one index file
RECURSIVE GcEntries(_, _)
GcEntries(entries, backup_chunk_ids) ==
    IF entries = << >> THEN << >>
    ELSE (IF AnyReferenced(Head(entries), backup_chunk_ids)
          THEN << GcEntry(Head(entries), backup_chunk_ids) >>
          ELSE << >>)
            \o GcEntries(Tail(entries), backup_chunk_ids)

\* mutant: a bundle skipped whole counts as one chunk removed
ChunksRemoved_PerBundle(entry, backup_chunk_ids) ==
    IF ~ AnyReferenced(entry, backup_chunk_ids) THEN 1
    ELSE LET Dropped(record) == record.id \notin backup_chunk_ids
         IN Len(SelectSeq(entry.chunks, Dropped))

\* what the rewrite of one bundle adds to chunks_removed: all its records
\* when the bundle is skipped, one for each record not pushed otherwise
ChunksRemoved(entry, backup_chunk_ids) ==
    IF ~ AnyReferenced(entry, backup_chunk_ids) THEN Len(entry.chunks)
    ELSE LET Dropped(record) == record.id \notin backup_chunk_ids
         IN Len(SelectSeq(entry.chunks, Dropped))

RECURSIVE ChunksRemovedOver(_, _)
ChunksRemovedOver(entries, backup_chunk_ids) ==
    IF entries = << >> THEN 0
    ELSE ChunksRemoved(Head(entries), backup_chunk_ids)
            + ChunksRemovedOver(Tail(entries), backup_chunk_ids)

NoGc ==
    [deleted |-> {}, created |-> << >>, from |-> << >>, chunks_removed |-> 0,
     indexes_modified |-> 0, indexes_removed |-> 0]

\* the loop of gc_indexes over the old index files: the files it deletes,
\* the files it creates and the old file each of them is made from, and the
\* counts it reports
RECURSIVE GcLoop(_, _, _, _)
GcLoop(st, dir, old_indexes, backup_chunk_ids) ==
    IF old_indexes = << >> THEN st
    ELSE LET old_index_entries == dir[Head(old_indexes)]
             new_index_entries == GcEntries(old_index_entries, backup_chunk_ids)
             removed == ChunksRemovedOver(old_index_entries, backup_chunk_ids)
             next ==
                IF AllReferenced(old_index_entries, backup_chunk_ids) THEN st
                ELSE IF new_index_entries # << >>
                THEN [st EXCEPT
                        !.deleted = @ \cup {Head(old_indexes)},
                        !.created = Append(@, new_index_entries),
                        !.from = Append(@, Head(old_indexes)),
                        !.chunks_removed = @ + removed,
                        !.indexes_modified = @ + 1]
                ELSE [st EXCEPT
                        !.deleted = @ \cup {Head(old_indexes)},
                        !.chunks_removed = @ + removed,
                        !.indexes_removed = @ + 1]
         IN GcLoop(next, dir, Tail(old_indexes), backup_chunk_ids)

\* index directories: one entry per bundle file in files of one entry; the
\* index files of the restore fixture, which name Chunk5 under Bundle3; an
\* index that names Chunk1 under two bundles and describes a bundle that is
\* not on disk
IndexPerBundle ==
    (1 :> << RebuildEntry(Bundle1) >>) @@ (2 :> << RebuildEntry(Bundle2) >>)
        @@ (3 :> << RebuildEntry(Bundle3) >>)

IndexOfRestore == (1 :> IndexFiles[1]) @@ (2 :> IndexFiles[2])

IndexWithDuplicate ==
    (1 :> IndexData[Index1]) @@ (2 :> IndexData[Index3])
        @@ (3 :> IndexData[Index4])

Repo(index, bundles, backups) ==
    [index |-> index, bundles |-> bundles, backups |-> backups]

\* the repositories a run can start from: index/, the bundle files on disk,
\* the backup files
InitialRepositories ==
    { Repo(IndexPerBundle, DOMAIN BundleFiles, {"b"}),
      Repo(IndexPerBundle, DOMAIN BundleFiles, {"twice", "iter"}),
      Repo(IndexPerBundle, {Bundle1, Bundle3}, {}),
      Repo(IndexOfRestore, DOMAIN BundleFiles, {"missing", "stale"}),
      Repo(IndexOfRestore, DOMAIN BundleFiles, {"b"}),
      Repo(IndexWithDuplicate, DOMAIN BundleFiles, {"b"}),
      Repo(IndexWithDuplicate, DOMAIN BundleFiles, {"twice", "iter"}),
      Repo(<< >>, DOMAIN BundleFiles, {}) }

PerIndexChoices == 1 .. MaxPerIndex

NoRun ==
    [op |-> "none", k |-> 0, result |-> "none", error |-> "", old |-> << >>,
     names |-> << >>, deleted |-> {}, master |-> NoIndex,
     backup_chunk_ids |-> {}, report |-> NoGc]

\* what a run leaves for the runs after it: the chunk ids has_chunk knows and
\* the index entries of the directory
LogEntry(op, k, bundle_ids, dir) ==
    [op |-> op, k |-> k,
     members |-> DOMAIN LoadIndexDir(bundle_ids, dir,
                    CHOOSE order \in Orders(DOMAIN dir) : TRUE).map,
     entries |-> DirEntries(dir)]

ConvertIdle ==
    /\ cv_index = << >>
    /\ cv_bundles = {}
    /\ cv_backups = {}
    /\ cv_master = NoIndex
    /\ cv_last = NoRun
    /\ cv_log = << >>

ConvertFrame ==
    UNCHANGED << sched_vars, restore_vars, open_vars, index_vars, writer_vars,
                 lock_vars, more_vars >>

RunsLeft == Len(cv_log) <= MaxRuns

\* mutant: the changes staged before the error are applied
RunFails_Applied(op, error, staged) ==
    /\ cv_last' =
        [NoRun EXCEPT
            !.op = op, !.result = "err", !.error = error, !.old = cv_index,
            !.report = staged]
    /\ cv_index' =
        CommitIndexes(cv_index, staged.created,
            NewIndexNames(DOMAIN cv_index, Len(staged.created)),
            staged.deleted)
    /\ cv_master' = NoIndex
    /\ UNCHANGED << cv_bundles, cv_backups, cv_log >>

\* the run ends in Err before commit: `?` returns the error, the manager is
\* dropped with what was staged, and the index directory is as it was
RunFails(op, error, staged) ==
    /\ cv_last' =
        [NoRun EXCEPT
            !.op = op, !.result = "err", !.error = error, !.old = cv_index,
            !.report = staged]
    /\ cv_index' = cv_index
    /\ cv_master' = NoIndex
    /\ UNCHANGED << cv_bundles, cv_backups, cv_log >>

\* the run commits: created files are renamed in, delete targets unlinked
RunCommits(op, k, created, deleted, master, backup_chunk_ids, report) ==
    LET names == NewIndexNames(DOMAIN cv_index, Len(created))
        dir == CommitIndexes(cv_index, created, names, deleted)
    IN /\ cv_index' = dir
       /\ cv_last' =
            [op |-> op, k |-> k, result |-> "ok", error |-> "",
             old |-> cv_index, names |-> names, deleted |-> deleted,
             master |-> master, backup_chunk_ids |-> backup_chunk_ids,
             report |-> report]
       /\ cv_log' = Append(cv_log, LogEntry(op, k, cv_bundles, dir))
       /\ cv_master' = NoIndex
       /\ UNCHANGED << cv_bundles, cv_backups >>

\* balance_indexes: old_indexes is the scan of index/
BalanceIndexes(k, old_indexes, io_ok) ==
    /\ RunsLeft
    /\ old_indexes \in Orders(DOMAIN cv_index)
    /\ IF ~ io_ok THEN RunFails("balance_indexes", "read_index", NoGc)
       ELSE RunCommits("balance_indexes", k,
                BalanceCreates(cv_index, old_indexes, k),
                Range(old_indexes), NoIndex, {}, NoGc)
    /\ ConvertFrame

\* rebuild_indexes: bundle_ids is the scan of bundles/; the scan of index/
\* comes after the new files were written under tmp/
RebuildIndexes(k, bundle_ids, io_ok) ==
    /\ RunsLeft
    /\ bundle_ids \in Orders(cv_bundles)
    /\ IF ~ io_ok THEN RunFails("rebuild_indexes", "read_bundle_info", NoGc)
       ELSE RunCommits("rebuild_indexes", k, RebuildCreates(bundle_ids, k),
                DOMAIN cv_index, NoIndex, {}, NoGc)
    /\ ConvertFrame

\* gc_indexes: load_indexes, the scans, the backups read, the rewrite.
\* read_index fails on the file at fails_at of the scan, 0 for none
GcIndexes(load_order, old_indexes, fails_at) ==
    /\ RunsLeft
    /\ load_order \in Orders(DOMAIN cv_index)
    /\ old_indexes \in Orders(DOMAIN cv_index)
    /\ fails_at \in 0 .. Len(old_indexes)
    /\ \E master \in {LoadIndexDir(cv_bundles, cv_index, load_order)} :
       \E collected \in {CollectBackups(cv_bundles, master, {}, cv_backups)} :
       \E rewrite \in
            {GcLoop(NoGc, cv_index,
                    IF fails_at = 0 THEN old_indexes
                    ELSE SubSeq(old_indexes, 1, fails_at - 1),
                    collected.chunk_ids)} :
          IF ~ collected.ok
          THEN RunFails("gc_indexes", "collect_chunks_from_backup", NoGc)
          ELSE IF fails_at # 0
          THEN RunFails("gc_indexes", "read_index", rewrite)
          ELSE RunCommits("gc_indexes", 0, rewrite.created, rewrite.deleted,
                    master, collected.chunk_ids, rewrite)
    /\ ConvertFrame

\* Repository::load_indexes over the index directory a run has left
LoadIndexesAfter(load_order) ==
    /\ cv_last.result = "ok"
    /\ ~ cv_master.is_some
    /\ load_order \in Orders(DOMAIN cv_index)
    /\ cv_master' = LoadIndexDir(cv_bundles, cv_index, load_order)
    /\ UNCHANGED << cv_index, cv_bundles, cv_backups, cv_last, cv_log >>
    /\ ConvertFrame

----------------------------------------------------------------------------
(* The cpu pool shared by the bundle read tasks and the index read tasks of
   reload_indexes, and the mutex of Repository.state *)

\* mutant: the pool has max_threads threads
PoolThreads_NoSpare(limit) == limit

\* CpuPool::new (repository_config.max_threads + 1)
PoolThreads(limit) == limit + 1

NoPool ==
    [queue |-> << >>, running |-> {}, mutex |-> "free", loading |-> 0,
     to_load |-> 0, spawned |-> 0, futures |-> << >>, waited |-> 0,
     reloads |-> 0]

PoolFrame ==
    /\ UNCHANGED << sched_vars, restore_vars, open_vars, index_vars,
                    writer_vars, lock_vars, convert_vars >>
    /\ UNCHANGED << gcb, chk >>

BundleTask(n) == [kind |-> "bundle", id |-> n, phase |-> "read"]

IndexTask(i) == [kind |-> "index", id |-> i, phase |-> "read"]

\* start_load_chunk_async: the bundle enters bundles_loading and its read is
\* spawned on the pool
SpawnBundleTask(p) ==
    [p EXCEPT
        !.loading = @ + 1,
        !.spawned = @ + 1,
        !.queue = Append(@, BundleTask(p.spawned + 1))]

\* get_chunk_async_async for a chunk of a bundle that is neither cached,
\* loading nor queued: under the state mutex, the load starts when a slot is
\* free and the bundle is queued otherwise
PoolGetChunk ==
    /\ pool.mutex = "free"
    /\ pool.spawned + pool.to_load < MaxRequests
    /\ pool' =
        IF pool.loading < max_threads THEN SpawnBundleTask(pool)
        ELSE [pool EXCEPT !.to_load = @ + 1]
    /\ PoolFrame

\* a pool thread without work takes the task at the head of the queue
PoolRuns ==
    /\ pool.queue # << >>
    /\ Cardinality(pool.running) < PoolThreads(max_threads)
    /\ pool' =
        [pool EXCEPT
            !.queue = Tail(@),
            !.running = @ \cup {Head(pool.queue)}]
    /\ PoolFrame

\* read_bundle returns on its pool thread; the closure goes on to
\* self_clone.state.lock ()
PoolBundleRead(task) ==
    /\ task \in pool.running
    /\ task.kind = "bundle" /\ task.phase = "read"
    /\ pool' =
        [pool EXCEPT
            !.running = (@ \ {task}) \cup {[task EXCEPT !.phase = "lock"]}]
    /\ PoolFrame

\* the closure gets the mutex: it leaves bundles_loading, completes its
\* waiters, starts the next queued bundle, and returns
PoolBundleStored(task) ==
    /\ task \in pool.running
    /\ task.kind = "bundle" /\ task.phase = "lock"
    /\ pool.mutex = "free"
    /\ LET removed ==
            [pool EXCEPT !.running = @ \ {task}, !.loading = @ - 1]
       IN pool' =
            IF removed.to_load > 0
            THEN SpawnBundleTask([removed EXCEPT !.to_load = @ - 1])
            ELSE removed
    /\ PoolFrame

RECURSIVE SpawnIndexTasks(_, _, _)
SpawnIndexTasks(queue, i, n) ==
    IF i > n THEN queue
    ELSE SpawnIndexTasks(Append(queue, IndexTask(i)), i + 1, n)

\* reload_indexes: self.state.lock (), the scans, and one read task spawned
\* for every index file; the guard is held until the call returns
PoolReloadIndexes(num_indexes, scan_ok) ==
    /\ pool.mutex = "free"
    /\ pool.reloads < MaxCalls
    /\ num_indexes \in 0 .. MaxIndexFiles
    /\ pool' =
        IF scan_ok
        THEN [pool EXCEPT
                !.mutex = "reload",
                !.reloads = @ + 1,
                !.queue = SpawnIndexTasks(@, 1, num_indexes),
                !.futures = [i \in 1 .. num_indexes |-> "pending"],
                !.waited = 0]
        ELSE [pool EXCEPT !.reloads = @ + 1]
    /\ PoolFrame

\* the closure of an index read task returns its entries or its error
PoolReadIndexTask(task) ==
    /\ task \in pool.running
    /\ task.kind = "index"
    /\ pool' =
        [pool EXCEPT
            !.running = @ \ {task},
            !.futures[task.id] = "done"]
    /\ PoolFrame

\* index_result_future.wait () returns for the next future of the vector
PoolWaitIndex ==
    /\ pool.mutex = "reload"
    /\ pool.waited < Len(pool.futures)
    /\ pool.futures[pool.waited + 1] = "done"
    /\ pool' = [pool EXCEPT !.waited = @ + 1]
    /\ PoolFrame

\* self_state.master_index = Some (master_index); Ok (()): the guard drops
PoolReloadReturns ==
    /\ pool.mutex = "reload"
    /\ pool.waited = Len(pool.futures)
    /\ pool' = [pool EXCEPT !.mutex = "free", !.futures = << >>, !.waited = 0]
    /\ PoolFrame

----------------------------------------------------------------------------
(* gc-bundles: get_all_index_entries, read_bundles_metadata, delete_bundles
   and compact_bundles over the bundle files of one repository *)

\* the bundle files and chunks of the repositories gc-bundles runs on; the
\* ids share their first byte, so the files are in one directory of bundles/
\* and are listed in any order
GcBundleList == << Bundle1, Bundle2, Bundle3 >>

GcChunkList == << Chunk1, Chunk2 >>

\* the chunks of the list that are in the set, in the order of the list
Among(list, S) == SelectSeq(list, LAMBDA x : x \in S)

\* what a bundle file can hold
ChunkLists == {Among(GcChunkList, S) : S \in SUBSET Range(GcChunkList)}

\* bundles/: the files that exist and the chunks of each
BundleDirs ==
    UNION {[S -> ChunkLists] : S \in SUBSET Range(GcBundleList)}

\* the index entries index/ can hold, as (bundle id, chunk id) pairs
IndexPairs == Range(GcBundleList) \X Range(GcChunkList)

\* index/ with the pairs of E: one index file for each bundle that has
\* entries
IndexDirOf(E) ==
    LET described == Among(GcBundleList, {pair[1] : pair \in E})
        records(b) ==
            LET ids == Among(GcChunkList, {pair[2] : pair \in {q \in E : q[1] = b}})
            IN [j \in DOMAIN ids |-> [id |-> ids[j], size |-> Len(ids)]]
    IN [i \in DOMAIN described |->
            << [bundle_id |-> described[i],
                chunks |-> records(described[i])] >>]

\* get_all_index_entries: a pair for every chunk record of every entry of
\* every index file
GetAllIndexEntries(index_files) ==
    UNION {UNION {{<< index_files[f][i].bundle_id,
                      index_files[f][i].chunks[j].id >> :
                        j \in DOMAIN index_files[f][i].chunks} :
                    i \in DOMAIN index_files[f]} :
            f \in DOMAIN index_files}

\* mutant: a chunk seen in another bundle is kept again
KeepChunk_Again(all_index_entries, seen_chunk_ids, bundle_id, chunk_id) ==
    << bundle_id, chunk_id >> \in all_index_entries

\* the test of both passes: the chunk is indexed under this bundle and has
\* not been seen
KeepChunk(all_index_entries, seen_chunk_ids, bundle_id, chunk_id) ==
    /\ << bundle_id, chunk_id >> \in all_index_entries
    /\ chunk_id \notin seen_chunk_ids

\* the loop of read_bundles_metadata over the chunks of one bundle
RECURSIVE CountChunks(_, _, _, _)
CountChunks(all_index_entries, bundle_id, chunks, counts) ==
    IF chunks = << >> THEN counts
    ELSE CountChunks(all_index_entries, bundle_id, Tail(chunks),
            IF KeepChunk(all_index_entries, counts.seen_chunk_ids, bundle_id,
                         Head(chunks))
            THEN [counts EXCEPT !.num_to_keep = @ + 1,
                                !.seen_chunk_ids = @ \cup {Head(chunks)}]
            ELSE [counts EXCEPT !.num_to_reap = @ + 1])

NoMetadata ==
    [seen_chunk_ids |-> {}, bundles_to_compact |-> << >>,
     bundles_to_delete |-> << >>, other_chunks_seen |-> {}]

\* read_bundles_metadata: delete a bundle with nothing to keep, compact one
\* with something to keep and something to reap, and remember the chunks of
\* the others
RECURSIVE ReadBundlesMetadata(_, _, _, _)
ReadBundlesMetadata(bundles, all_index_entries, old_bundles, metadata) ==
    IF old_bundles = << >> THEN metadata
    ELSE LET old_bundle_id == Head(old_bundles)
             counts ==
                CountChunks(all_index_entries, old_bundle_id,
                    bundles[old_bundle_id],
                    [num_to_keep |-> 0, num_to_reap |-> 0,
                     seen_chunk_ids |-> metadata.seen_chunk_ids])
             seen == [metadata EXCEPT !.seen_chunk_ids = counts.seen_chunk_ids]
         IN ReadBundlesMetadata(bundles, all_index_entries, Tail(old_bundles),
                IF counts.num_to_keep = 0
                THEN [seen EXCEPT !.bundles_to_delete =
                                        Append(@, old_bundle_id)]
                ELSE IF counts.num_to_reap > 0
                THEN [seen EXCEPT !.bundles_to_compact =
                                        Append(@, old_bundle_id)]
                ELSE [seen EXCEPT !.other_chunks_seen =
                                        @ \cup Range(bundles[old_bundle_id])])

\* delete_bundles, as far as the first done removals
DeleteBundles(bundles, bundles_to_delete, done) ==
    [b \in DOMAIN bundles \ {bundles_to_delete[i] : i \in 1 .. done} |->
        bundles[b]]

\* the chunks compact_bundles writes to the new file of one bundle
RECURSIVE CompactedBundle(_, _, _, _)
CompactedBundle(all_index_entries, bundle_id, chunks, compacted) ==
    IF chunks = << >> THEN compacted
    ELSE CompactedBundle(all_index_entries, bundle_id, Tail(chunks),
            IF KeepChunk(all_index_entries, compacted.seen_chunk_ids,
                         bundle_id, Head(chunks))
            THEN [chunks |-> Append(compacted.chunks, Head(chunks)),
                  seen_chunk_ids |->
                    compacted.seen_chunk_ids \cup {Head(chunks)}]
            ELSE compacted)

\* compact_bundles, as far as the first done bundles: each is read, written
\* to a temp file and committed over the old file on its own
RECURSIVE CompactBundles(_, _, _, _, _)
CompactBundles(bundles, all_index_entries, bundles_to_compact, seen_chunk_ids, done) ==
    IF done = 0 THEN bundles
    ELSE LET bundle_to_compact == Head(bundles_to_compact)
             compacted ==
                CompactedBundle(all_index_entries, bundle_to_compact,
                    bundles[bundle_to_compact],
                    [chunks |-> << >>, seen_chunk_ids |-> seen_chunk_ids])
         IN CompactBundles(
                [bundles EXCEPT ![bundle_to_compact] = compacted.chunks],
                all_index_entries, Tail(bundles_to_compact),
                compacted.seen_chunk_ids, done - 1)

\* where a run of gc-bundles can leave through `?`, and how many bundles the
\* loop it is in has finished by then
GcStops(index_files, old_bundles, metadata) ==
    {[at |-> "none", done |-> 0]}
    \cup {[at |-> "index_read_path", done |-> 0] : i \in DOMAIN index_files}
    \cup {[at |-> "bundle_info_read_path", done |-> 0] :
            i \in DOMAIN old_bundles}
    \cup {[at |-> "remove_file", done |-> i - 1] :
            i \in DOMAIN metadata.bundles_to_delete}
    \cup {[at |-> "compact_bundles", done |-> i - 1] :
            i \in DOMAIN metadata.bundles_to_compact}

\* bundles/ when the run returns
BundlesAfter(bundles, all_index_entries, metadata, stop) ==
    IF stop.at \in {"index_read_path", "bundle_info_read_path"} THEN bundles
    ELSE IF stop.at = "remove_file"
    THEN DeleteBundles(bundles, metadata.bundles_to_delete, stop.done)
    ELSE CompactBundles(
            DeleteBundles(bundles, metadata.bundles_to_delete,
                          Len(metadata.bundles_to_delete)),
            all_index_entries, metadata.bundles_to_compact,
            metadata.other_chunks_seen,
            IF stop.at = "none" THEN Len(metadata.bundles_to_compact)
            ELSE stop.done)

NoGcBundles ==
    [bundles |-> EmptyMap, index |-> << >>, runs |-> 0, result |-> "none",
     stop |-> "none", old |-> EmptyMap, old_bundles |-> << >>,
     metadata |-> NoMetadata]

\* gc_bundles
GcBundles(old_bundles) ==
    /\ gcb.runs < MaxGcRuns
    /\ \E all_index_entries \in {GetAllIndexEntries(gcb.index)} :
       \E metadata \in {ReadBundlesMetadata(gcb.bundles, all_index_entries,
                                            old_bundles, NoMetadata)} :
       \E stop \in GcStops(gcb.index, old_bundles, metadata) :
            gcb' = [gcb EXCEPT
                !.bundles = BundlesAfter(gcb.bundles, all_index_entries,
                                         metadata, stop),
                !.runs = @ + 1,
                !.result = IF stop.at = "none" THEN "ok" ELSE "error",
                !.stop = stop.at,
                !.old = gcb.bundles,
                !.old_bundles = old_bundles,
                !.metadata =
                    IF stop.at \in {"index_read_path", "bundle_info_read_path"}
                    THEN NoMetadata ELSE metadata]
    /\ UNCHANGED << sched_vars, restore_vars, open_vars, index_vars,
                    writer_vars, lock_vars, convert_vars, pool, chk >>

----------------------------------------------------------------------------
(* check-backups: the backups under backups/ that cannot be expanded or name
   a chunk the master index does not have, and their move to
   backups-broken/ *)

\* backup files under backups/, by relative path, and the content of each
CheckBackupFiles ==
    (<< "b" >> :> "b") @@ (<< "host", "iter" >> :> "iter")
        @@ (<< "missing" >> :> "missing") @@ (<< "host", "cut" >> :> "cut")
        @@ (<< "stale" >> :> "stale")

\* a relative path as the string scan_backup_files returns
RECURSIVE PathString(_)
PathString(path) ==
    IF Len(path) = 1 THEN Head(path)
    ELSE Head(path) \o "/" \o PathString(Tail(path))

\* the SHA-1 sums of the path strings, in hex
Sha1Hex ==
    ("b" :> "e9d71f5ee7c92d6dc9e92ffdad17b8bd49418f98")
    @@ ("host/iter" :> "e330116488a4ab3894ab90e754ad6de3950fbad3")
    @@ ("missing" :> "5a013c49508291c6816ac388f93a2c11973086ed")
    @@ ("host/cut" :> "9a59c829d6cb9c7da05826747dc7b6d911d3928c")
    @@ ("stale" :> "a4e976a3d3fc6d0b40453de216fbbe2e9aaecdc4")

StartsWith(string, prefix) ==
    Len(prefix) <= Len(string) /\ SubSeq(string, 1, Len(prefix)) = prefix

NoPrefix == [is_some |-> FALSE, prefix |-> ""]

SomePrefix(prefix) == [is_some |-> TRUE, prefix |-> prefix]

\* the values of backup_name_hash_prefix
HashPrefixes ==
    {NoPrefix, SomePrefix(""), SomePrefix("e"), SomePrefix("e9"),
     SomePrefix("5a0"), SomePrefix("ff")}

\* the filter on the scanned names
Selected(backup_name_hash_prefix, backup_name) ==
    \/ ~ backup_name_hash_prefix.is_some
    \/ StartsWith(Sha1Hex[PathString(backup_name)],
                  backup_name_hash_prefix.prefix)

\* the scanned names that pass the filter, in the order of the scan
SelectedNames(backup_name_hash_prefix, scanned) ==
    SelectSeq(scanned, LAMBDA name : Selected(backup_name_hash_prefix, name))

\* the repositories check-backups runs on: index/ and the bundle files
CheckRepositories ==
    { Repo(IndexPerBundle, DOMAIN BundleFiles, {}),
      Repo(IndexPerBundle, {Bundle1, Bundle3}, {}),
      Repo(IndexOfRestore, DOMAIN BundleFiles, {}),
      Repo(<< >>, DOMAIN BundleFiles, {}) }

\* the master index load_indexes builds
CheckMaster(repo) ==
    LoadIndexDir(repo.bundles, repo.index,
                 CHOOSE order \in Orders(DOMAIN repo.index) : TRUE)

\* mutant: a backup is broken only when it cannot be expanded
BackupBroken_NotExpanded(backup_expanded, missing_chunks) ==
    ~ backup_expanded

\* the test of the loop of check_backups
BackupBroken(backup_expanded, missing_chunks) ==
    ~ backup_expanded \/ missing_chunks # {}

\* the collected chunks for which has_chunk is false
MissingChunks(master, backup_chunks) ==
    {c \in backup_chunks : c \notin DOMAIN master.map}

\* what check_backups makes of the result of collect_chunks_from_backup
CheckCollected(master, collected) ==
    BackupBroken(collected.ok, MissingChunks(master, collected.chunk_ids))

\* one pass of the loop: expand the backup, look for its chunks in the master
\* index, and say whether it is broken
CheckBackup(repo, master, backups, backup_name) ==
    CheckCollected(master,
        CollectChunksFromBackup(repo.bundles, master, {},
                                backups[backup_name]))

\* the directories create_dir_all makes sure of
ParentDirs(path) == {SubSeq(path, 1, k) : k \in 0 .. Len(path) - 1}

\* create_dir_all and rename
MoveBackup(tree, backup_name) ==
    [backups |-> MapRemove(tree.backups, backup_name),
     backups_broken |->
        MapInsert(MapRemove(tree.backups_broken, backup_name), backup_name,
                  tree.backups[backup_name]),
     dirs |-> tree.dirs \cup ParentDirs(backup_name)]

\* the end of a pass: a broken backup is counted, and moved when move_broken
\* is set
EndPass(move_broken, run, backup_name, broken) ==
    [tree |->
        IF broken /\ move_broken
        THEN MoveBackup(run.tree, backup_name) ELSE run.tree,
     checked |-> run.checked \cup {backup_name},
     errors |->
        IF broken THEN run.errors \cup {backup_name} ELSE run.errors]

\* one pass of the loop of check_backups
CheckPass(repo, master, move_broken, run, backup_name) ==
    EndPass(move_broken, run, backup_name,
            CheckBackup(repo, master, run.tree.backups, backup_name))

\* the pass that leaves through `?`: create_dir_all has made the directory
\* when it is rename that fails
FailedPass(run, backup_names, stop) ==
    IF stop.at = "rename"
    THEN [run EXCEPT
            !.tree.dirs = @ \cup ParentDirs(backup_names[stop.done + 1])]
    ELSE run

\* the loop of check_backups over the first stop.done names
CheckLoop(repo, master, move_broken, backup_names, stop, start) ==
    LET run[i \in 0 .. stop.done] ==
            IF i = 0 THEN start
            ELSE CheckPass(repo, master, move_broken, run[i - 1],
                           backup_names[i])
    IN FailedPass(run[stop.done], backup_names, stop)

\* where check_backups can leave through `?`: before the loop, or in the move
\* of a broken backup
CheckStops(repo, master, move_broken, backups, backup_names) ==
    {[at |-> "none", done |-> Len(backup_names)],
     [at |-> "load_indexes", done |-> 0],
     [at |-> "scan_backup_files", done |-> 0]}
    \cup {[at |-> at, done |-> i - 1] :
            at \in {"create_dir_all", "rename"},
            i \in {j \in DOMAIN backup_names :
                    move_broken
                        /\ CheckBackup(repo, master, backups,
                                       backup_names[j])}}

NoTree == [backups |-> EmptyMap, backups_broken |-> EmptyMap, dirs |-> {}]

NoCheck ==
    [repo |-> Repo(<< >>, {}, {}), tree |-> NoTree, runs |-> 0,
     result |-> "none", stop |-> "none", move_broken |-> FALSE,
     backup_name_hash_prefix |-> NoPrefix, backup_names |-> << >>,
     checked |-> {}, errors |-> {}, old |-> NoTree]

\* check_backups, run once on the repository
CheckBackups(move_broken, backup_name_hash_prefix, scanned) ==
    /\ chk.runs = 0
    /\ \E master \in {CheckMaster(chk.repo)} :
       \E backup_names \in
            {SelectedNames(backup_name_hash_prefix, scanned)} :
       \E stop \in CheckStops(chk.repo, master, move_broken,
                              chk.tree.backups, backup_names) :
       \E run \in
            {CheckLoop(chk.repo, master, move_broken, backup_names, stop,
                       [tree |-> chk.tree, checked |-> {}, errors |-> {}])} :
            chk' = [chk EXCEPT
                !.tree = run.tree,
                !.runs = @ + 1,
                !.result = IF stop.at = "none" THEN "ok" ELSE "error",
                !.stop = stop.at,
                !.move_broken = move_broken,
                !.backup_name_hash_prefix = backup_name_hash_prefix,
                !.backup_names =
                    IF stop.at \in {"load_indexes", "scan_backup_files"}
                    THEN << >> ELSE backup_names,
                !.checked = run.checked,
                !.errors = run.errors,
                !.old = chk.tree]
    /\ UNCHANGED << sched_vars, restore_vars, open_vars, index_vars,
                    writer_vars, lock_vars, convert_vars, pool, gcb >>

----------------------------------------------------------------------------
(* The variables a specification does not use *)

\* the parts of the model a specification does not use stay as they are
MoreIdle ==
    /\ pool = NoPool
    /\ gcb = NoGcBundles
    /\ chk = NoCheck

----------------------------------------------------------------------------
(* The scheduler under arbitrary callers *)

Init ==
    /\ max_threads \in 0 .. MaxThreadsLimit
    /\ master_index = NoIndex
    /\ bundles_loading = EmptyMap
    /\ bundles_to_load = EmptyMap
    /\ bundles_to_load_list = << >>
    /\ tasks = {}
    /\ cache = EmptyMap
    /\ requests = [r \in Requesters |-> NoRequest]
    /\ first_request_order = << >>
    /\ r_name = ""
    /\ RestoreIdle
    /\ OpenIdle
    /\ IndexIdle
    /\ WriterIdle
    /\ LockIdle
    /\ ConvertIdle
    /\ MoreIdle

\* callers use their request slots in order
NextRequester(r) == \A q \in 1 .. r - 1 : requests[q].outer # "none"

Next ==
    \/ LoadIndexes
    \/ \E r \in Requesters, chunk_id \in ChunkIds :
        NextRequester(r) /\ GetChunkAsyncAsync(r, chunk_id)
    \/ \E r \in Requesters : StorageGetDone(r)
    \/ \E task \in tasks : BundleTaskOk(task)
    \/ \E task \in tasks, e \in IoErrors : BundleReadFailed(task, e)
    \/ \E task \in tasks, e \in IoErrors :
        \E inserted \in SUBSET DOMAIN BundleFiles[task.bundle] :
            BundleInsertFailed(task, e, inserted)

vars ==
    << sched_vars, restore_vars, open_vars, index_vars, writer_vars,
       lock_vars, convert_vars, more_vars >>

Spec == Init /\ [][Next]_vars

----------------------------------------------------------------------------
(* The scheduler when every bundle read task ends in Ok and the pool runs
   every task it is given: the closure of a spawned task and the storage
   manager's task of a cache hit are not put off for ever *)

NextLive ==
    \/ LoadIndexes
    \/ \E r \in Requesters, chunk_id \in ChunkIds :
        NextRequester(r) /\ GetChunkAsyncAsync(r, chunk_id)
    \/ \E r \in Requesters : StorageGetDone(r)
    \/ \E task \in tasks : BundleTaskOk(task)

FairLive ==
    /\ WF_vars(\E task \in tasks : BundleTaskOk(task))
    /\ WF_vars(\E r \in Requesters : StorageGetDone(r))

SpecLive == Init /\ [][NextLive]_vars /\ FairLive

----------------------------------------------------------------------------
(* reload_indexes next to bundle loads on one pool: every thread of the pool
   goes on with what it runs, and a closure waiting for the state mutex
   gets it once it stays free *)

InitPool ==
    /\ max_threads \in 0 .. MaxThreadsLimit
    /\ master_index = NoIndex
    /\ bundles_loading = EmptyMap
    /\ bundles_to_load = EmptyMap
    /\ bundles_to_load_list = << >>
    /\ tasks = {}
    /\ cache = EmptyMap
    /\ requests = [r \in Requesters |-> NoRequest]
    /\ first_request_order = << >>
    /\ r_name = ""
    /\ RestoreIdle
    /\ OpenIdle
    /\ IndexIdle
    /\ WriterIdle
    /\ LockIdle
    /\ ConvertIdle
    /\ MoreIdle

NextPool ==
    \/ PoolGetChunk
    \/ PoolRuns
    \/ \E task \in pool.running : PoolBundleRead(task)
    \/ \E task \in pool.running : PoolBundleStored(task)
    \/ \E num_indexes \in 0 .. MaxIndexFiles, scan_ok \in BOOLEAN :
        PoolReloadIndexes(num_indexes, scan_ok)
    \/ \E task \in pool.running : PoolReadIndexTask(task)
    \/ PoolWaitIndex
    \/ PoolReloadReturns

FairPool ==
    /\ WF_vars(PoolRuns)
    /\ WF_vars(\E task \in pool.running : PoolBundleRead(task))
    /\ WF_vars(\E task \in pool.running : PoolBundleStored(task))
    /\ WF_vars(\E task \in pool.running : PoolReadIndexTask(task))
    /\ WF_vars(PoolWaitIndex)
    /\ WF_vars(PoolReloadReturns)

SpecPool == InitPool /\ [][NextPool]_vars /\ FairPool

----------------------------------------------------------------------------
(* gc-bundles over every small repository *)

InitBundles ==
    /\ max_threads = 0
    /\ master_index = NoIndex
    /\ bundles_loading = EmptyMap
    /\ bundles_to_load = EmptyMap
    /\ bundles_to_load_list = << >>
    /\ tasks = {}
    /\ cache = EmptyMap
    /\ requests = [r \in Requesters |-> NoRequest]
    /\ first_request_order = << >>
    /\ r_name = ""
    /\ RestoreIdle
    /\ OpenIdle
    /\ IndexIdle
    /\ WriterIdle
    /\ LockIdle
    /\ ConvertIdle
    /\ pool = NoPool
    /\ chk = NoCheck
    /\ \E bundles \in BundleDirs, E \in SUBSET IndexPairs :
            gcb = [NoGcBundles EXCEPT !.bundles = bundles,
                                      !.index = IndexDirOf(E)]

NextBundles ==
    \E old_bundles \in Orders(DOMAIN gcb.bundles) : GcBundles(old_bundles)

SpecBundles == InitBundles /\ [][NextBundles]_vars

----------------------------------------------------------------------------
(* check-backups over small repositories *)

InitCheck ==
    /\ max_threads = 0
    /\ master_index = NoIndex
    /\ bundles_loading = EmptyMap
    /\ bundles_to_load = EmptyMap
    /\ bundles_to_load_list = << >>
    /\ tasks = {}
    /\ cache = EmptyMap
    /\ requests = [r \in Requesters |-> NoRequest]
    /\ first_request_order = << >>
    /\ r_name = ""
    /\ RestoreIdle
    /\ OpenIdle
    /\ IndexIdle
    /\ WriterIdle
    /\ LockIdle
    /\ ConvertIdle
    /\ pool = NoPool
    /\ gcb = NoGcBundles
    /\ \E repo \in CheckRepositories :
       \E names \in {S \in SUBSET DOMAIN CheckBackupFiles :
                        Cardinality(S) <= MaxBackups} :
            chk = [NoCheck EXCEPT
                !.repo = repo,
                !.tree.backups = [name \in names |-> CheckBackupFiles[name]]]

NextCheck ==
    \E move_broken \in BOOLEAN, backup_name_hash_prefix \in HashPrefixes :
    \E scanned \in Orders(DOMAIN chk.tree.backups) :
        CheckBackups(move_broken, backup_name_hash_prefix, scanned)

SpecCheck == InitCheck /\ [][NextCheck]_vars

----------------------------------------------------------------------------
(* The scheduler under callers that may drop their futures *)

NextDrop ==
    \/ Next
    \/ \E r \in Requesters : DropFuture(r)
    \/ \E task \in tasks : BundleTaskCancelled(task)

SpecDrop == Init /\ [][NextDrop]_vars

----------------------------------------------------------------------------
(* One restore over the scheduler *)

InitRestore ==
    /\ max_threads \in 0 .. MaxThreadsLimit
    /\ master_index = NoIndex
    /\ bundles_loading = EmptyMap
    /\ bundles_to_load = EmptyMap
    /\ bundles_to_load_list = << >>
    /\ tasks = {}
    /\ cache = EmptyMap
    /\ requests = << >>
    /\ first_request_order = << >>
    /\ r_name \in BackupNames
    /\ RestoreIdle
    /\ OpenIdle
    /\ IndexIdle
    /\ WriterIdle
    /\ LockIdle
    /\ ConvertIdle
    /\ MoreIdle

NextRestore ==
    \/ RestoreCall
    \/ FollowLoadNext
    \/ FollowEmitChunk
    \/ \E e \in IoErrors : FollowWriteFails(e)
    \/ FollowQueueChunk
    \/ FollowJobFails
    \/ FollowReturnsOk
    \/ \E r \in DOMAIN requests : StorageGetDone(r)
    \/ \E task \in tasks : BundleTaskOk(task)
    \/ \E task \in tasks, e \in IoErrors : BundleReadFailed(task, e)
    \/ \E task \in tasks, e \in IoErrors :
        \E inserted \in SUBSET DOMAIN BundleFiles[task.bundle] :
            BundleInsertFailed(task, e, inserted)

SpecRestore == InitRestore /\ [][NextRestore]_vars

----------------------------------------------------------------------------
(* Repository::open over every info file and password file *)

InitOpen ==
    /\ master_index = NoIndex
    /\ bundles_loading = EmptyMap
    /\ bundles_to_load = EmptyMap
    /\ bundles_to_load_list = << >>
    /\ tasks = {}
    /\ cache = EmptyMap
    /\ requests = << >>
    /\ first_request_order = << >>
    /\ r_name = ""
    /\ RestoreIdle
    /\ storage_info \in StorageInfos
    /\ password_file_path \in PasswordFiles
    /\ repository_config \in [max_threads : 0 .. MaxThreadsLimit]
    /\ max_threads = repository_config.max_threads
    /\ storage_manager_ok \in BOOLEAN
    /\ open_result = NotOpened
    /\ IndexIdle
    /\ WriterIdle
    /\ LockIdle
    /\ ConvertIdle
    /\ MoreIdle

NextOpen == Open

SpecOpen == InitOpen /\ [][NextOpen]_vars

----------------------------------------------------------------------------
(* Index loads under concurrent callers *)

InitIndex ==
    /\ max_threads = 1
    /\ master_index = NoIndex
    /\ bundles_loading = EmptyMap
    /\ bundles_to_load = EmptyMap
    /\ bundles_to_load_list = << >>
    /\ tasks = {}
    /\ cache = EmptyMap
    /\ requests = << >>
    /\ first_request_order = << >>
    /\ r_name = ""
    /\ RestoreIdle
    /\ OpenIdle
    /\ ix_impl \in {"repo", "cache"}
    /\ ix_dir \in IndexDirs
    /\ num_cpus \in IF ix_impl = "repo" THEN {1} ELSE 1 .. MaxCpus
    /\ ic_entries = NoIndex
    /\ ix_mutex = 0
    /\ ix_pc = [t \in Callers |-> "idle"]
    /\ ix_op = [t \in Callers |-> "none"]
    /\ ix_result = [t \in Callers |-> "none"]
    /\ ld = NoLoad
    /\ ix_hist = NoHistory
    /\ WriterIdle
    /\ LockIdle
    /\ ConvertIdle
    /\ MoreIdle

NextIndex ==
    \/ \E t \in Callers : LoadIndexesCall(t)
    \/ \E t \in Callers : ReloadIndexesCall(t)
    \/ \E t \in Callers, scan_ok \in BOOLEAN : ScanRepository(t, scan_ok)
    \/ \E i \in DOMAIN ld.futures, read_ok \in BOOLEAN : ReadIndexTask(i, read_ok)
    \/ \E t \in Callers : WaitIndex(t)
    \/ \E t \in Callers : StoreIndex(t)
    \/ \E t \in Callers : QueryIndex(t)
    \/ IndexDirChanges
    \/ LoadIfNotLoaded
    \/ CacheReload
    \/ \E scan_ok \in BOOLEAN : CacheScan(scan_ok)
    \/ CacheDispatch
    \/ \E i \in DOMAIN ld.futures : CacheSelect(i)

SpecIndex == InitIndex /\ [][NextIndex]_vars

----------------------------------------------------------------------------
(* One maintenance transaction *)

InitWriter ==
    /\ max_threads = 1
    /\ master_index = NoIndex
    /\ bundles_loading = EmptyMap
    /\ bundles_to_load = EmptyMap
    /\ bundles_to_load_list = << >>
    /\ tasks = {}
    /\ cache = EmptyMap
    /\ requests = [r \in Requesters |-> NoRequest]
    /\ first_request_order = << >>
    /\ r_name = ""
    /\ RestoreIdle
    /\ OpenIdle
    /\ IndexIdle
    /\ fs = InitialFs
    /\ afw = NewWriter
    /\ afw_hist = NoWriterHistory
    /\ maint \in {AnyCaller} \cup GcPlans
    /\ LockIdle
    /\ ConvertIdle
    /\ MoreIdle

NextWriter ==
    \/ \E temp_file_name \in TempNames,
          target_path \in TargetPaths \cup {BundlePath2},
          create_ok \in BOOLEAN :
        Create(temp_file_name, target_path, create_ok)
    \/ \E k \in 1 .. MaxStaged, write_ok \in BOOLEAN : WriteStaged(k, write_ok)
    \/ \E delete_path \in DeletePaths : Delete(delete_path)
    \/ CommitBegins
    \/ \E sync_ok \in BOOLEAN : CommitSync(sync_ok)
    \/ \E mkdir_ok \in BOOLEAN, outcome \in RenameOutcomes :
        CommitRename(mkdir_ok, outcome)
    \/ \E unlink_ok \in BOOLEAN : CommitUnlink(unlink_ok)
    \/ DropWriter
    \/ Killed
    \/ \E remove_ok \in BOOLEAN : GcDeleteBundle(remove_ok)
    \/ \E read_ok \in BOOLEAN : GcReadBundle(read_ok)

SpecWriter == InitWriter /\ [][NextWriter]_vars

----------------------------------------------------------------------------
(* Maintenance processes on one repository *)

OpIndex(op) == CHOOSE k \in DOMAIN MaintOps : MaintOps[k] = op

InitLock ==
    /\ max_threads = 1
    /\ master_index = NoIndex
    /\ bundles_loading = EmptyMap
    /\ bundles_to_load = EmptyMap
    /\ bundles_to_load_list = << >>
    /\ tasks = {}
    /\ cache = EmptyMap
    /\ requests = [r \in Requesters |-> NoRequest]
    /\ first_request_order = << >>
    /\ r_name = ""
    /\ RestoreIdle
    /\ OpenIdle
    /\ IndexIdle
    /\ WriterIdle
    /\ maint_procs \in
        {[p \in Procs |-> [NoProc EXCEPT !.op = MaintOps[ops[p]]]] :
            ops \in {f \in [Procs -> DOMAIN MaintOps] :
                        \A p \in Procs, q \in Procs : p < q => f[p] <= f[q]}}
    /\ lock_file = InitialLockFile
    /\ lock_hist = NoLockHistory
    /\ ConvertIdle
    /\ MoreIdle

NextLock ==
    \/ \E p \in Procs, sleep_time \in {"none", "some"}, open_ok \in BOOLEAN :
        NewOpen(p, sleep_time, open_ok)
    \/ \E p \in Procs, flock_ok \in BOOLEAN : NewFlock(p, flock_ok)
    \/ \E p \in Procs : NewFlockSleeps(p)
    \/ \E p \in Procs, fcntl_ok \in BOOLEAN : NewFcntl(p, fcntl_ok)
    \/ \E p \in Procs, create_ok \in BOOLEAN : NewTmpDir(p, create_ok)
    \/ \E p \in Procs, scan_ok \in BOOLEAN : Scan(p, scan_ok)
    \/ \E p \in Procs, create_ok \in BOOLEAN : Stage(p, create_ok)
    \/ \E p \in Procs, mutate_ok \in BOOLEAN : Mutate(p, mutate_ok)
    \/ \E p \in Procs, commit_ok \in BOOLEAN, changed \in BOOLEAN :
        Commit(p, commit_ok, changed)
    \/ \E p \in Procs : Drop(p)
    \/ \E p \in Procs, how \in {"exit", "killed"} : ProcessEnds(p, how)

SpecLock == InitLock /\ [][NextLock]_vars

----------------------------------------------------------------------------
(* The index maintenance operations over one repository *)

InitConvert ==
    /\ max_threads = 1
    /\ master_index = NoIndex
    /\ bundles_loading = EmptyMap
    /\ bundles_to_load = EmptyMap
    /\ bundles_to_load_list = << >>
    /\ tasks = {}
    /\ cache = EmptyMap
    /\ requests = [r \in Requesters |-> NoRequest]
    /\ first_request_order = << >>
    /\ r_name = ""
    /\ RestoreIdle
    /\ OpenIdle
    /\ IndexIdle
    /\ WriterIdle
    /\ LockIdle
    /\ \E repo \in InitialRepositories :
        /\ cv_index = repo.index
        /\ cv_bundles = repo.bundles
        /\ cv_backups = repo.backups
    /\ cv_master = NoIndex
    /\ cv_last = NoRun
    /\ cv_log = << LogEntry("none", 0, cv_bundles, cv_index) >>
    /\ MoreIdle

NextConvert ==
    \/ \E k \in PerIndexChoices, io_ok \in BOOLEAN :
        \E old_indexes \in Orders(DOMAIN cv_index) :
            BalanceIndexes(k, old_indexes, io_ok)
    \/ \E k \in PerIndexChoices, io_ok \in BOOLEAN :
        \E bundle_ids \in Orders(cv_bundles) :
            RebuildIndexes(k, bundle_ids, io_ok)
    \/ \E load_order \in Orders(DOMAIN cv_index),
          old_indexes \in Orders(DOMAIN cv_index) :
        \E fails_at \in 0 .. Len(old_indexes) :
            GcIndexes(load_order, old_indexes, fails_at)
    \/ \E load_order \in Orders(DOMAIN cv_index) : LoadIndexesAfter(load_order)

SpecConvert == InitConvert /\ [][NextConvert]_vars

----------------------------------------------------------------------------
(* Properties of the scheduler *)

Called(r) == requests[r].outer # "none"

IndexBundle(chunk_id) == master_index.map[chunk_id].bundle_id

\* C1: in every reachable scheduler state the number of bundles in
\* bundles_loading never exceeds max_threads.
C1_LoadingBounded == Cardinality(DOMAIN bundles_loading) <= max_threads

\* every slot taken while another bundle waits in the queue
C1_Witness ==
    /\ max_threads = 2
    /\ Cardinality(DOMAIN bundles_loading) = max_threads
    /\ bundles_to_load_list # << >>

C2_OneTaskPerBundle ==
    /\ \A t1 \in tasks, t2 \in tasks : t1.bundle = t2.bundle => t1 = t2
    /\ \A t \in tasks : t.bundle \in DOMAIN bundles_loading
    /\ DOMAIN bundles_loading \cap DOMAIN bundles_to_load = {}

C2_Joins ==
    \A r \in DOMAIN requests, chunk_id \in ChunkIds :
        ( /\ ~ Called(r)
          /\ requests'[r].outer # "none"
          /\ requests'[r].chunk = chunk_id
          /\ ToHex(chunk_id) \notin DOMAIN cache
          /\ chunk_id \in DOMAIN master_index.map
          /\ IndexBundle(chunk_id) \in
                DOMAIN bundles_loading \cup DOMAIN bundles_to_load )
        => /\ tasks' = tasks
           /\ DOMAIN bundles_loading' = DOMAIN bundles_loading
           /\ bundles_to_load_list' = bundles_to_load_list
           /\ IF IndexBundle(chunk_id) \in DOMAIN bundles_loading
              THEN r \in WaitersOf(bundles_loading'[IndexBundle(chunk_id)])
              ELSE r \in WaitersOf(bundles_to_load'[IndexBundle(chunk_id)])

\* C2: concurrent requests for uncached chunks of one bundle result in one
\* bundle read task: at most one load of a bundle is in flight, a bundle is
\* never both in bundles_loading and in bundles_to_load, and a later request
\* joins the existing load or queue entry instead of starting another read.
C2_Coalescing == [] C2_OneTaskPerBundle /\ [][C2_Joins]_vars

\* three requests outstanding on one bundle read
C2_Witness ==
    \E t \in tasks :
        /\ Cardinality(WaitersOf(bundles_loading[t.bundle])) >= 2
        /\ \A r \in WaitersOf(bundles_loading[t.bundle]) :
            requests[r].inner_res = "pending"
        /\ requests[t.req].inner_res = "pending"

\* the step in which the read of task's bundle fails
ReadFailedStep(task) ==
    /\ task \in tasks
    /\ task \notin tasks'
    /\ requests'[task.req].inner_res = "err"
    /\ requests'[task.req].inner_err \in
            {ReadBundleError(task.bundle, e) : e \in IoErrors}

\* C3: when the read of a bundle fails, every waiter registered on that
\* bundle, and the request that started the load, is completed with the same
\* error string; no waiter of the failed bundle is left unresolved.
C3_ReadErrorReachesEveryWaiter ==
    [][\A task \in tasks :
        ReadFailedStep(task) =>
            \A r \in WaitersOf(bundles_loading[task.bundle]) :
                /\ requests'[r].inner_res = "err"
                /\ requests'[r].inner_err = requests'[task.req].inner_err]_vars

\* C4: after a bundle read fails the scheduler continues: the failed bundle
\* is removed from bundles_loading and, if bundles_to_load_list is non-empty,
\* the bundle at its head is started.
C4_ReadErrorFreesSlot ==
    [][\A task \in tasks :
        ReadFailedStep(task) =>
            /\ task.bundle \notin DOMAIN bundles_loading'
            /\ bundles_to_load_list # << >> =>
                Head(bundles_to_load_list) \in DOMAIN bundles_loading']_vars

\* C5: queued bundles are started in the order of their first request: a
\* bundle leaves bundles_to_load only as the one whose first request is the
\* oldest among the queued bundles, and it moves into bundles_loading.
C5_Fifo ==
    [][\A b \in DOMAIN bundles_to_load :
        b \notin DOMAIN bundles_to_load' =>
            /\ b = Head(first_request_order)
            /\ b \in DOMAIN bundles_loading']_vars

\* a queued request was promoted while another bundle still waits
C5_Witness ==
    /\ bundles_to_load_list # << >>
    /\ \E r \in DOMAIN requests :
        /\ requests[r].via = "queue"
        /\ requests[r].outer = "ready"

\* the request is recorded in the queue entry of its chunk's bundle
QueuedOn(reqs, to_load, r) ==
    /\ reqs[r].chunk \in DOMAIN master_index.map
    /\ IndexBundle(reqs[r].chunk) \in DOMAIN to_load
    /\ r \in WaitersOf(to_load[IndexBundle(reqs[r].chunk)])

\* the request's inner future is tied to the load of bundle_id in flight
TiedToLoad(reqs, loading, running, r, bundle_id) ==
    /\ reqs[r].bundle = bundle_id
    /\ \/ /\ reqs[r].inner = "waiter"
          /\ bundle_id \in DOMAIN loading
          /\ r \in WaitersOf(loading[bundle_id])
       \/ /\ reqs[r].inner = "task"
          /\ \E t \in running : t.bundle = bundle_id /\ t.req = r

\* an unresolved outer future is a queued waiter, and conversely
C6_PendingIsQueued ==
    \A r \in DOMAIN requests :
        /\ requests[r].outer = "pending" =>
            /\ QueuedOn(requests, bundles_to_load, r)
            /\ IndexBundle(requests[r].chunk) \notin DOMAIN bundles_loading
        /\ (\E b \in DOMAIN bundles_to_load : r \in WaitersOf(bundles_to_load[b]))
            => requests[r].outer = "pending"

\* the call: resolved at return iff the bundle is loading after the call
C6_AtCall ==
    \A r \in DOMAIN requests :
        ( /\ ~ Called(r)
          /\ requests'[r].outer # "none"
          /\ ToHex(requests'[r].chunk) \notin DOMAIN cache
          /\ requests'[r].chunk \in DOMAIN master_index.map )
        => LET bundle_id == IndexBundle(requests'[r].chunk)
           IN IF bundle_id \in DOMAIN bundles_loading'
              THEN /\ requests'[r].outer = "ready"
                   /\ TiedToLoad(requests', bundles_loading', tasks', r, bundle_id)
              ELSE /\ requests'[r].outer = "pending"
                   /\ QueuedOn(requests', bundles_to_load', r)

\* a queued waiter resolves exactly in the step that starts its bundle
C6_AtPromotion ==
    \A r \in DOMAIN requests :
        requests[r].outer = "pending" =>
            LET bundle_id == IndexBundle(requests[r].chunk)
            IN IF bundle_id \in DOMAIN bundles_loading'
               THEN /\ requests'[r].outer = "ready"
                    /\ TiedToLoad(requests', bundles_loading', tasks', r, bundle_id)
               ELSE /\ requests'[r].outer = "pending"
                    /\ QueuedOn(requests', bundles_to_load', r)

\* C6: double-future contract: for a request of an uncached, indexed chunk
\* the outer future is resolved when the call returns iff the chunk's bundle
\* is in bundles_loading after the call; otherwise the request is recorded in
\* bundles_to_load and its outer future stays unresolved until, and resolves
\* exactly when, the scheduler moves the bundle into bundles_loading, with an
\* inner future tied to that load. This holds for every queued waiter.
C6_DoubleFuture ==
    [] C6_PendingIsQueued /\ [][C6_AtCall /\ C6_AtPromotion]_vars

\* two queued waiters of one bundle, both promoted: one started the load and
\* the other joined it
C6_Witness ==
    \E r1 \in DOMAIN requests, r2 \in DOMAIN requests :
        /\ r1 # r2
        /\ requests[r1].via = "queue" /\ requests[r2].via = "queue"
        /\ requests[r1].outer = "ready" /\ requests[r2].outer = "ready"
        /\ requests[r1].inner = "task" /\ requests[r2].inner = "waiter"
        /\ requests[r1].bundle = requests[r2].bundle
        /\ requests[r2].inner_res = "pending"

\* the step in which r asks for a chunk that is neither cached nor indexed
MissingChunkCall(r) ==
    /\ ~ Called(r)
    /\ requests'[r].outer # "none"
    /\ ToHex(requests'[r].chunk) \notin DOMAIN cache
    /\ requests'[r].chunk \notin DOMAIN master_index.map

\* C7: a request for a chunk that is neither in the cache nor a key of the
\* master index fails with "Missing chunk: <hex of chunk id>" and leaves
\* bundles_loading, bundles_to_load and bundles_to_load_list as they were;
\* no bundle read is started. (Chunk6 is the chunk no index file names.)
C7_MissingChunk ==
    [][\A r \in DOMAIN requests :
        MissingChunkCall(r) =>
            /\ requests'[r].chunk = Chunk6
            /\ requests'[r].outer = "failed"
            /\ requests'[r].outer_err =
                "Missing chunk: 0000000000000000000000000000000000000000000000ff"
            /\ requests'[r].inner = "none"
            /\ bundles_loading' = bundles_loading
            /\ bundles_to_load' = bundles_to_load
            /\ bundles_to_load_list' = bundles_to_load_list
            /\ tasks' = tasks]_vars

\* a missing-chunk request made while bundles are loading and queued
C7_Witness ==
    /\ bundles_loading # EmptyMap
    /\ bundles_to_load_list # << >>
    /\ \E r \in DOMAIN requests :
        /\ requests[r].chunk = Chunk6
        /\ requests[r].outer = "failed"

----------------------------------------------------------------------------
(* Properties of restore *)

IsPrefix(a, b) == Len(a) <= Len(b) /\ a = SubSeq(b, 1, Len(a))

\* the bytes of a chunk as its indexed bundle file holds them
StoredChunk(chunk_id) ==
    LET index == LoadIndexesReal(EmptyMap, DOMAIN BundleFiles, IndexFiles)
    IN IF /\ chunk_id \in DOMAIN index
          /\ chunk_id \in DOMAIN BundleFiles[index[chunk_id].bundle_id]
       THEN BundleFiles[index[chunk_id].bundle_id][chunk_id]
       ELSE << >>

\* over the instructions of a stream in stream order: chunk bytes, then
\* literal bytes
RECURSIVE StreamOutput(_)
StreamOutput(stream) ==
    IF stream = << >> THEN << >>
    ELSE LET message == ReadMessage(stream)
         IN IF ~ message.instruction.ok THEN << >>
            ELSE StoredChunk(message.instruction.chunk_to_emit)
                    \o message.instruction.bytes_to_emit
                    \o StreamOutput(message.rest)

RECURSIVE Expand(_, _)
Expand(stream, iterations) ==
    IF iterations = 0 THEN stream
    ELSE Expand(StreamOutput(stream), iterations - 1)

\* what the last pass of restore is to write for a backup file
ExpectedSink(file) ==
    StreamOutput(Expand(BackupFiles[file].backup_data,
                        BackupFiles[file].iterations))

RestoredFile == SubSeq(r_name, 2, Len(r_name))

\* C8: follow_instructions writes in strict instruction order: at every
\* point of the run the bytes written to the sink are a prefix of the
\* concatenation, over the instructions in stream order, of chunk bytes then
\* literal bytes; and when it returns Ok every instruction has been emitted
\* exactly once.
C8_SinkInInstructionOrder ==
    (r_pc # "idle" /\ RestoredFile \in DOMAIN BackupFiles) =>
        /\ IsPrefix(sink, ExpectedSink(RestoredFile))
        /\ (r_pc = "done" /\ r_result = "ok") =>
                sink = ExpectedSink(RestoredFile)

\* C9: restore returns success only if the SHA-256 of exactly the bytes it
\* wrote to the sink equals the checksum of the backup header, and it returns
\* an error if they differ.
C9_ChecksumOfSink ==
    (r_pc = "done" /\ RestoredFile \in DOMAIN BackupFiles) =>
        /\ r_result = "ok" =>
            DigestResult(DigestInput(DigestNew, sink))
                = BackupFiles[RestoredFile].sha256
        /\ DigestResult(DigestInput(DigestNew, sink))
                # BackupFiles[RestoredFile].sha256
            => r_result = "err"

----------------------------------------------------------------------------
(* Properties of open *)

Opened == open_result.status # "none"

\* C10: with a readable info file, open decides on (info declares a key,
\* password file given): key and no password file is the error "Required
\* password file not provided"; no key and a password file is "Unnecessary
\* password file provided"; key and a password file that does not unwrap it
\* is "Incorrect password"; no error comes with a Repository, and a
\* Repository holds a key exactly when the info file declares one.
C10_OpenDecision ==
    (Opened /\ storage_info.readable) =>
        /\ (storage_info.has_encryption_key /\ ~ password_file_path.is_some)
                => open_result = OpenErr("Required password file not provided")
        /\ (~ storage_info.has_encryption_key /\ password_file_path.is_some)
                => open_result = OpenErr("Unnecessary password file provided")
        /\ (/\ storage_info.has_encryption_key
            /\ password_file_path.is_some
            /\ password_file_path.readable
            /\ password_file_path.password # EncryptionKeyInfo.password)
                => open_result = OpenErr("Incorrect password")
        /\ open_result.status = "err" => ~ open_result.repository.is_some
        /\ open_result.status = "ok" =>
                /\ open_result.repository.is_some
                /\ open_result.repository.encryption_key.is_some
                        <=> storage_info.has_encryption_key
                /\ storage_info.has_encryption_key =>
                        open_result.repository.encryption_key.key
                            = EncryptionKeyInfo.key

\* open has refused a password file for a repository without key
C10_Witness ==
    /\ Opened
    /\ storage_info.readable
    /\ ~ storage_info.has_encryption_key
    /\ password_file_path.is_some
    /\ open_result.error = "Unnecessary password file provided"

----------------------------------------------------------------------------
(* Properties of index loading *)

\* the index of the implementation under test
LoadedIndex == IF ix_impl = "repo" THEN master_index ELSE ic_entries

\* a load has just stored its map
JustStored == ix_hist.last # NoLoad

\* the futures of a load whose index file was read
ReadOk(load) == {i \in DOMAIN load.futures : load.futures[i].state = "ok"}

ReadFailed(load) == {i \in DOMAIN load.futures : load.futures[i].state = "err"}

\* a call of load_indexes / load_if_not_loaded is made with the index loaded
LazyCallStep ==
    /\ ix_hist'.calls = ix_hist.calls + 1
    /\ ix_op'[ix_hist'.caller] = "load"
    /\ LoadedIndex.is_some

\* C11 (a): such a call returns Ok at once, without a scan, and leaves the
\* index as it is
C11_NoRescan ==
    LazyCallStep =>
        /\ LoadedIndex' = LoadedIndex
        /\ ix_result'[ix_hist'.caller] = "ok"
        /\ ix_pc'[ix_hist'.caller] = "idle"
        /\ ld' = ld

\* the thread inside a load
Loader == IF ix_impl = "repo" THEN ix_mutex ELSE CacheOwner

\* C11 (b): a loaded index is replaced only by reload_indexes / reload
C11_OnlyReloadReplaces ==
    (LoadedIndex.is_some /\ LoadedIndex' # LoadedIndex) =>
        /\ Loader \in Callers
        /\ ix_op[Loader] = "reload"
        /\ LoadedIndex'.is_some

\* C11: index loading is lazy and happens at most once: with the index
\* loaded, load_indexes (load_if_not_loaded) returns Ok without rescanning
\* and leaves the index unchanged; over all interleavings of the callers at
\* most one load_indexes call loads the index files; only reload_indexes
\* (reload) replaces a loaded index.
C11_LazyOnce ==
    /\ [][C11_NoRescan /\ C11_OnlyReloadReplaces]_vars
    /\ [](ix_hist.lazy_loads <= 1)
    /\ [](\A t, u \in Callers :
            (ix_pc[t] # "idle" /\ ix_pc[u] # "idle") => t = u)

\* a second load_indexes call has found the index loaded
C11_Witness ==
    /\ ix_impl = "repo"
    /\ ix_hist.skipped
    /\ ix_hist.lazy_loads = 1
    /\ ix_hist.calls >= 2
    /\ ix_result[ix_hist.caller] = "ok"

\* C12: a reload never tears readers: once a first load has succeeded the
\* master index is always a complete map stored by some load, also while a
\* reload is running or has failed, and has_chunk / get_index_entry read
\* such a map, never a partly built one and never None.
C12_NoTornRead ==
    (ix_impl = "repo" /\ ix_hist.loads > 0) =>
        /\ master_index.is_some
        /\ master_index.map \in ix_hist.installed
        /\ ix_hist.queries = 1 =>
            /\ ix_hist.seen.is_some
            /\ ix_hist.seen.map \in ix_hist.installed

\* a reload is part way through building a map that differs from the index
\* the readers are being given
C12_Witness ==
    /\ ix_impl = "repo"
    /\ ix_hist.loads > 0
    /\ ix_mutex # 0
    /\ ix_op[ix_mutex] = "reload"
    /\ ix_pc[ix_mutex] = "wait"
    /\ ld.count >= 1
    /\ ld.master # master_index.map

\* C13: every entry of a loaded index names a bundle whose file the bundle
\* scan found.
C13_OnlyScannedBundles ==
    \A chunk_id \in DOMAIN LoadedIndex.map :
        LoadedIndex.map[chunk_id].bundle_id \in DOMAIN BundleFiles

\* a load has read an index file that describes a bundle not on disk
C13_Witness ==
    /\ JustStored
    /\ \E i \in ReadOk(ix_hist.last) :
        /\ ix_hist.last.futures[i].index_id = Index4
        /\ IndexData[Index4][1].bundle_id \notin DOMAIN BundleFiles

\* the chunk ids an index file names, whatever their bundle
ReferencedChunks(index) ==
    UNION {{index[k].chunks[j].id : j \in DOMAIN index[k].chunks} :
            k \in DOMAIN index}

\* the chunk ids an index file names under bundles of the set
ReferencedUnder(index, bundle_ids) ==
    UNION {{index[k].chunks[j].id : j \in DOMAIN index[k].chunks} :
            k \in {n \in DOMAIN index : index[n].bundle_id \in bundle_ids}}

\* the map holds, for each of its chunks, the entry that was inserted last
LastWriterWins(map, inserted) ==
    /\ DOMAIN map = {inserted[k].chunk_id : k \in DOMAIN inserted}
    /\ \A k \in DOMAIN inserted :
        (\A n \in DOMAIN inserted :
            inserted[n].chunk_id = inserted[k].chunk_id => n <= k)
            => map[inserted[k].chunk_id] =
                    [bundle_id |-> inserted[k].bundle_id,
                     size |-> inserted[k].size]

\* C14 as stated: after a load every chunk referenced by any loaded index
\* is in the master index, with the entry that was inserted last.
C14_EveryReferencedChunk ==
    JustStored =>
        /\ \A i \in ReadOk(ix_hist.last) :
            ReferencedChunks(IndexData[ix_hist.last.futures[i].index_id])
                \subseteq DOMAIN LoadedIndex.map
        /\ LastWriterWins(LoadedIndex.map, ix_hist.last.inserted)

\* C14 amended: after a load every chunk that a loaded index references
\* under a bundle found by the bundle scan is in the master index, and when
\* a chunk id occurs in several such entries the map holds the one inserted
\* last.
C14_EveryScannedChunk ==
    JustStored =>
        /\ \A i \in ReadOk(ix_hist.last) :
            ReferencedUnder(IndexData[ix_hist.last.futures[i].index_id],
                            DOMAIN BundleFiles)
                \subseteq DOMAIN LoadedIndex.map
        /\ LastWriterWins(LoadedIndex.map, ix_hist.last.inserted)

\* a load has inserted the same chunk id twice, with different entries
C14_Witness ==
    /\ JustStored
    /\ \E k, n \in DOMAIN ix_hist.last.inserted :
        /\ k < n
        /\ ix_hist.last.inserted[k].chunk_id = ix_hist.last.inserted[n].chunk_id
        /\ ix_hist.last.inserted[k].size # ix_hist.last.inserted[n].size

\* C15: an index file that cannot be read is not fatal: the load returns Ok,
\* the index holds the bundle-filtered entries of every index file that was
\* read, the error count is the number of files that failed, and loaded
\* plus failed is the number of index files dispatched.
C15_ErrorsNotFatal ==
    JustStored =>
        LET load == ix_hist.last
        IN /\ ix_result[ix_hist.caller] = "ok"
           /\ LoadedIndex.is_some
           /\ \A i \in ReadOk(load) :
                \A k \in DOMAIN load.futures[i].index_entries :
                    load.futures[i].index_entries[k].chunk_id
                        \in DOMAIN LoadedIndex.map
           /\ \A i \in ReadOk(load) :
                load.futures[i].index_entries =
                    IndexTaskEntries(DOMAIN BundleFiles,
                                     IndexData[load.futures[i].index_id])
           /\ load.count = Cardinality(ReadOk(load))
           /\ load.error_count = Cardinality(ReadFailed(load))
           /\ load.count + load.error_count = Len(load.futures)
           /\ ix_impl = "cache" => Len(load.futures) = Len(load.index_ids)

\* a load has finished with one index file read and another one failed
C15_Witness ==
    /\ JustStored
    /\ ix_hist.last.error_count >= 1
    /\ ix_hist.last.count >= 1
    /\ DOMAIN LoadedIndex.map # {}

\* IndexCache::load_indexes is running
CacheLoading == ix_impl = "cache" /\ ix_pc[CacheOwner] \in {"loop", "select"}

InFlight == Len(ld.in_flight)

\* C16 as stated: the index read tasks in flight never exceed the limit,
\* and the limit is ceil ((num_cpu - 1) * 7/3) + 1.
C16_CeilLimit ==
    CacheLoading =>
        /\ InFlight <= NumThreads(num_cpus)
        /\ 3 * (NumThreads(num_cpus) - 1) >= 7 * (num_cpus - 1)
        /\ 3 * (NumThreads(num_cpus) - 2) < 7 * (num_cpus - 1)

\* C16 amended: the index read tasks in flight never exceed the limit, and
\* the limit is floor ((num_cpu - 1) * 7/3) + 1.
C16_FloorLimit ==
    CacheLoading =>
        /\ InFlight <= NumThreads(num_cpus)
        /\ Cardinality({i \in DOMAIN ld.futures :
                            ld.futures[i].state = "spawned"})
                <= NumThreads(num_cpus)
        /\ 3 * (NumThreads(num_cpus) - 1) <= 7 * (num_cpus - 1)
        /\ 3 * NumThreads(num_cpus) > 7 * (num_cpus - 1)

\* the limit is reached while index files are still to be dispatched
C16_Witness ==
    /\ CacheLoading
    /\ InFlight = NumThreads(num_cpus)
    /\ Len(ld.futures) < Len(ld.index_ids)

\* C17: the state mutex is never held across I/O: no thread scans a
\* directory, reads a bundle or index file or writes to the storage manager
\* while it holds the Repository state mutex.
C17_NoIoUnderLock == ~ ix_hist.io_locked

----------------------------------------------------------------------------
(* Properties of dropped futures *)

\* the request that started the load of a bundle, while the load has reported
\* nothing to it
Starter(r, bundle_id) ==
    /\ requests[r].inner = "task"
    /\ requests[r].bundle = bundle_id
    /\ requests[r].inner_res = "pending"

LoadRunning(bundle_id) == \E task \in tasks : task.bundle = bundle_id

\* C18: dropping the outer or inner future of a pending chunk request is
\* safe: a bundle in flight still has its load running, so that the load
\* finishes, removes the bundle from bundles_loading and completes the other
\* waiters, also when the dropped future belongs to the request that started
\* the load.
C18_DropIsSafe ==
    \A r \in Requesters, bundle_id \in DOMAIN bundles_loading :
        requests[r].dropped /\ Starter(r, bundle_id) => LoadRunning(bundle_id)

----------------------------------------------------------------------------
(* Properties of the atomic file writer *)

CommitLog == afw_hist.log

\* the positions of the log at which commit did an operation of these kinds
LogAt(kinds) == {k \in DOMAIN CommitLog : CommitLog[k][1] \in kinds}

Moved == {"rename", "copy"}

StagedNames == {afw_hist.staged[k][1] : k \in DOMAIN afw_hist.staged}

\* the temp files on which commit has done an operation of these kinds
LoggedNames(kinds) == {CommitLog[k][2] : k \in LogAt(kinds)}

\* commit has returned Ok and nothing was staged or recorded since
Committed == afw.pc = "idle" /\ afw.result = "ok" /\ ~ afw_hist.pending

\* C19: commit performs its steps in order: every staged temp file is
\* fsynced before any temp file is renamed into place, every rename into
\* place happens before any recorded delete target is unlinked, and after a
\* successful commit both pending lists are empty.
C19_CommitOrder ==
    /\ \A k \in LogAt({"sync"}), m \in LogAt(Moved \cup {"unlink"}) : k < m
    /\ \A k \in LogAt(Moved), m \in LogAt({"unlink"}) : k < m
    /\ LogAt(Moved) # {} => StagedNames \subseteq LoggedNames({"sync"})
    /\ LogAt({"unlink"}) # {} => StagedNames \subseteq LoggedNames({"rename"})
    /\ LogAt({"unlink"}) # {} => LogAt({"copy"}) = {}
    /\ Committed => afw.temp_files = << >> /\ afw.delete_files = << >>

\* a commit of two staged files and at least one delete target has
\* returned Ok
C19_Witness ==
    /\ Committed
    /\ Len(afw_hist.staged) = 2
    /\ Len(afw_hist.deletes) >= 1
    /\ Cardinality(LogAt({"sync"})) = 2
    /\ Cardinality(LogAt({"rename"})) = 2
    /\ Cardinality(LogAt({"unlink"})) = Len(afw_hist.deletes)

\* a create step: one more staged creation
CreateStep == Len(afw'.temp_files) = Len(afw.temp_files) + 1

\* a delete step: one more recorded delete target
DeleteStep == Len(afw'.delete_files) = Len(afw.delete_files) + 1

C20_LiveTreeKept ==
    afw_hist.pending => LiveTree(fs) = afw_hist.at_call

C20_CreateOnlyInTmp ==
    CreateStep =>
        /\ LiveTree(fs') = LiveTree(fs)
        /\ fs'.dirs = fs.dirs
        /\ \E temp_file_path \in TmpFiles(fs') \ TmpFiles(fs) :
            DOMAIN fs'.files = DOMAIN fs.files \cup {temp_file_path}

C20_DeleteOnlyRecords ==
    DeleteStep =>
        /\ fs' = fs
        /\ \E delete_path \in DeletePaths :
            afw'.delete_files = Append(afw.delete_files, delete_path)

\* C20: crash safety before commit: between a create or delete call and the
\* start of the next commit no file under bundles/, index/ or backups/ is
\* added, removed or renamed, also when the process is killed there; create
\* only adds a file under tmp/ and delete only records the path.
C20_CrashSafeBeforeCommit ==
    /\ [] C20_LiveTreeKept
    /\ [][C20_CreateOnlyInTmp /\ C20_DeleteOnlyRecords]_vars

\* gc-bundles is killed between a create and its commit, after it has
\* already changed the live tree
C20_Witness ==
    /\ afw.pc = "killed"
    /\ afw_hist.pending
    /\ maint.op = "gc_bundles"
    /\ maint.pc \in {"write", "commit"}
    /\ afw.temp_files # << >>
    /\ LiveTree(fs) # LiveTree(InitialFs)

\* the writer was dropped with creations or deletes staged that no commit
\* has begun to apply
DroppedUncommitted == afw.pc = "dropped" /\ afw_hist.pending

CommitEnded ==
    /\ ~ afw_hist.pending
    /\ \/ afw.pc = "idle" /\ afw.result \in {"ok", "err"}
       \/ afw.pc = "killed" /\ afw.i >= 1

\* the staged creation that is the last one for its target
LastStaged(k) ==
    \A m \in DOMAIN afw_hist.staged :
        afw_hist.staged[m][2] = afw_hist.staged[k][2] => m <= k

\* every staged file is at its target and every delete target is unlinked
AllApplied ==
    /\ \A k \in DOMAIN afw_hist.staged :
        LastStaged(k) =>
            /\ afw_hist.staged[k][2] \in DOMAIN fs.files
            /\ fs.files[afw_hist.staged[k][2]].from = afw_hist.staged[k][1]
    /\ \A k \in DOMAIN afw_hist.deletes :
        afw_hist.deletes[k] \notin DOMAIN fs.files

\* the files of the live tree are as they were before commit was called
NothingApplied == LiveTree(fs).files = afw_hist.at_call.files

\* C22: a maintenance commit is all-or-nothing: whenever commit ends, by
\* returning Ok, by returning an error from any step or by the process being
\* killed inside it, either every staged file is at its target and every
\* delete target is unlinked, or the live tree is as it was before the call.
C22_AllOrNothing == CommitEnded => AllApplied \/ NothingApplied

----------------------------------------------------------------------------
(* Properties of the repository lock *)

WriterHolders == {p \in Procs : maint_procs[p].writer = "alive"}

LockWaiters ==
    {p \in Procs : Running(p) /\ maint_procs[p].new_pc \in {"opened", "flocked"}}

\* C23: at most one maintenance process holds the repository lock: while the
\* writer of one process is alive, new in another process has not returned
\* Ok, and the live writer holds both locks
C23_OneLockHolder ==
    /\ Cardinality(WriterHolders) <= 1
    /\ \A p \in WriterHolders : HoldsLock(lock_file, p)

\* one process has its writer, another has opened the lock file, found the
\* lock taken and slept
C23_Witness ==
    \E p \in WriterHolders, q \in LockWaiters :
        /\ p # q
        /\ maint_procs[q].slept
        /\ maint_procs[q].new_pc = "opened"

\* C24: every maintenance operation has the lock when it scans the tree or
\* reads the state its rewrite is based on, and no other process changes the
\* live tree between that scan and its own mutations
C24_LockBeforeScan ==
    /\ ~ lock_hist.scan_unlocked
    /\ ~ lock_hist.stale_mutation

\* C25: every change of the live tree by a maintenance operation is made
\* while its process holds the repository lock
C25_MutationsUnderLock == ~ lock_hist.mutation_unlocked

\* gc-bundles has unlinked bundles and committed, check-backups has moved a
\* broken backup in between its scan and its return
C25_Witness ==
    \E p \in Procs, q \in Procs :
        /\ maint_procs[p].op = "gc_bundles" /\ Running(p) /\ Step(p) = "drop"
        /\ maint_procs[p].staged = 0
        /\ maint_procs[q].op = "check_backups"
        /\ maint_procs[q].result = "returned"

----------------------------------------------------------------------------
(* Properties of the index maintenance operations *)

CeilDiv(n, k) == (n + k - 1) \div k

\* the number of index entries in the files of an index directory
RECURSIVE EntryCountOver(_, _)
EntryCountOver(dir, names) ==
    IF names = {} THEN 0
    ELSE LET name == CHOOSE m \in names : TRUE
         IN Len(dir[name]) + EntryCountOver(dir, names \ {name})

EntryCount(dir) == EntryCountOver(dir, DOMAIN dir)

\* the triples of a set of index entries
SetTriples(entries) == UNION {EntryTriples(<< entry >>) : entry \in entries}

\* the chunks the info records of the bundle files list
BundleChunks(bundle_ids) == UNION {DOMAIN BundleFiles[b] : b \in bundle_ids}

BalanceRan == cv_last.op = "balance_indexes" /\ cv_last.result = "ok"

RebuildRan == cv_last.op = "rebuild_indexes" /\ cv_last.result = "ok"

GcRan == cv_last.op = "gc_indexes" /\ cv_last.result = "ok"

\* run i of the log was op and the run after it was next_op
RanInTurn(i, op, next_op) ==
    /\ i \in 2 .. Len(cv_log) - 1
    /\ cv_log[i].op = op
    /\ cv_log[i + 1].op = next_op

\* C26: balance-indexes preserves the logical index: after a successful run
\* the set of (bundle_id, chunk_id, size) triples over all index files is the
\* set before the run, also when it is run again with the same
\* bundles_per_index
C26_BalancePreserves ==
    /\ BalanceRan => LogicalIndex(cv_index) = LogicalIndex(cv_last.old)
    /\ \A i \in 2 .. Len(cv_log) :
        cv_log[i].op = "balance_indexes" =>
            SetTriples(cv_log[i].entries) = SetTriples(cv_log[i - 1].entries)

\* balance-indexes has run twice with the same bundles_per_index over an
\* index that is not empty, and the first run regrouped the entries
C26_Witness ==
    /\ BalanceRan
    /\ RanInTurn(2, "balance_indexes", "balance_indexes")
    /\ cv_log[2].k = cv_log[3].k
    /\ cv_log[2].k = 2
    /\ LogicalIndex(cv_index) # {}
    /\ Cardinality(DOMAIN cv_index) = 2

\* C27: for N index entries and bundles_per_index = k, balance-indexes
\* leaves exactly ceil(N/k) new index files, each of k entries except the
\* last written, which holds the N mod k entries left over and is never
\* empty; every index file found by the scan is deleted and no new one is
C27_BalanceShape ==
    BalanceRan =>
        LET N == EntryCount(cv_last.old)
            k == cv_last.k
            names == cv_last.names
        IN /\ Len(names) = CeilDiv(N, k)
           /\ DOMAIN cv_index = Range(names)
           /\ \A i \in DOMAIN names :
                Len(cv_index[names[i]]) =
                    IF i < Len(names) \/ N % k = 0 THEN k ELSE N % k
           /\ \A name \in DOMAIN cv_index : cv_index[name] # << >>
           /\ cv_last.deleted = DOMAIN cv_last.old
           /\ DOMAIN cv_last.old \cap DOMAIN cv_index = {}

\* three entries in three files were balanced two to a file: a full file and
\* a last file with the entry left over
C27_Witness ==
    /\ BalanceRan
    /\ cv_last.k = 2
    /\ Cardinality(DOMAIN cv_last.old) = 3
    /\ EntryCount(cv_last.old) = 3
    /\ Len(cv_last.names) = 2
    /\ Len(cv_index[cv_last.names[2]]) = 1

\* C28: after rebuild-indexes over B bundle files with bundles_per_index = k
\* the index directory holds exactly ceil(B/k) index files, whose entries are
\* exactly one entry per bundle file (its id, the chunk list of its info
\* record) whatever the old index files held; every index file that was
\* there before is deleted and no new one is
C28_RebuildShape ==
    RebuildRan =>
        /\ Cardinality(DOMAIN cv_index) =
                CeilDiv(Cardinality(cv_bundles), cv_last.k)
        /\ EntryCount(cv_index) = Cardinality(cv_bundles)
        /\ DirEntries(cv_index) =
                {[bundle_id |-> b, chunks |-> ReadBundleInfo(b)] :
                    b \in cv_bundles}
        /\ DOMAIN cv_index = Range(cv_last.names)
        /\ cv_last.deleted = DOMAIN cv_last.old
        /\ DOMAIN cv_last.old \cap DOMAIN cv_index = {}

\* three bundle files were rebuilt two to a file over an index that named a
\* chunk twice and described a bundle that is not on disk
C28_Witness ==
    /\ RebuildRan
    /\ cv_last.k = 2
    /\ cv_last.old = IndexWithDuplicate
    /\ Cardinality(cv_bundles) = 3
    /\ Cardinality(DOMAIN cv_index) = 2

\* C29: balance-indexes and then rebuild-indexes leave the set of chunk ids
\* for which has_chunk is true as it was before balance-indexes, and a
\* second rebuild-indexes leaves the same set of index entries as the first
C29_MembershipUnchanged ==
    /\ \A i \in 2 .. Len(cv_log) - 1 :
        RanInTurn(i, "balance_indexes", "rebuild_indexes") =>
            /\ cv_log[i].members = cv_log[i - 1].members
            /\ cv_log[i + 1].members = cv_log[i].members
    /\ \A i \in 2 .. Len(cv_log) - 1 :
        RanInTurn(i, "rebuild_indexes", "rebuild_indexes") =>
            cv_log[i + 1].entries = cv_log[i].entries

\* C29, amended: the same, for a repository whose index names, under the
\* bundles on disk, exactly the chunks the bundle files list; balance-indexes
\* alone leaves the membership unchanged in every repository
C29_MembershipUnchangedWhenConsistent ==
    /\ \A i \in 2 .. Len(cv_log) - 1 :
        RanInTurn(i, "balance_indexes", "rebuild_indexes") =>
            /\ cv_log[i].members = cv_log[i - 1].members
            /\ cv_log[i - 1].members = BundleChunks(cv_bundles) =>
                    cv_log[i + 1].members = cv_log[i].members
    /\ \A i \in 2 .. Len(cv_log) - 1 :
        RanInTurn(i, "rebuild_indexes", "rebuild_indexes") =>
            cv_log[i + 1].entries = cv_log[i].entries

\* balance-indexes and then rebuild-indexes have run over an index that
\* agrees with the three bundle files
C29_Witness ==
    /\ RanInTurn(2, "balance_indexes", "rebuild_indexes")
    /\ cv_log[1].members = BundleChunks(cv_bundles)
    /\ Cardinality(cv_bundles) = 3
    /\ cv_log[3].members # {}

\* C30: gc-indexes preserves live chunks: every chunk reachable from a
\* backup before the run is in the master index loaded after the run, with
\* the bundle id and size it had in the master index before
C30_GcPreservesLive ==
    (GcRan /\ cv_master.is_some) =>
        \A chunk_id \in cv_last.backup_chunk_ids :
            /\ chunk_id \in DOMAIN cv_last.master.map
            /\ chunk_id \in DOMAIN cv_master.map
            /\ cv_master.map[chunk_id] = cv_last.master.map[chunk_id]

\* C30, amended: every chunk reachable from a backup that the master index
\* held before the run is in the master index loaded after the run, with a
\* bundle id and size that an index file recorded for it before the run
C30_GcKeepsIndexedLive ==
    (GcRan /\ cv_master.is_some) =>
        \A chunk_id \in
                cv_last.backup_chunk_ids \cap DOMAIN cv_last.master.map :
            /\ chunk_id \in DOMAIN cv_master.map
            /\ << cv_master.map[chunk_id].bundle_id, chunk_id,
                  cv_master.map[chunk_id].size >>
                    \in LogicalIndex(cv_last.old)

\* gc-indexes has rewritten an index file, keeping a record that was not the
\* first of its bundle, and the index was loaded again
C30_Witness ==
    /\ GcRan
    /\ cv_master.is_some
    /\ cv_last.deleted # {}
    /\ cv_last.names # << >>
    /\ Chunk5 \in cv_last.backup_chunk_ids \cap DOMAIN cv_master.map

\* the number of chunk records of a sequence of index entries
RECURSIVE ChunkRecordCount(_)
ChunkRecordCount(entries) ==
    IF entries = << >> THEN 0
    ELSE Len(Head(entries).chunks) + ChunkRecordCount(Tail(entries))

\* the entries of all the files of an index directory
RECURSIVE ReadAllOver(_, _)
ReadAllOver(dir, names) ==
    IF names = {} THEN << >>
    ELSE LET name == CHOOSE m \in names : TRUE
         IN dir[name] \o ReadAllOver(dir, names \ {name})

ReadAll(dir) == ReadAllOver(dir, DOMAIN dir)

\* the chunk records of an index file that a backup reaches, bundle by
\* bundle, without the bundles that keep none
Surviving(entries, chunk_ids) ==
    LET Reached(record) == record.id \in chunk_ids
        Kept(entry) ==
            [bundle_id |-> entry.bundle_id,
             chunks |-> SelectSeq(entry.chunks, Reached)]
        HasKept(entry) == \E j \in DOMAIN entry.chunks : Reached(entry.chunks[j])
        bundles == SelectSeq(entries, HasKept)
    IN [i \in DOMAIN bundles |-> Kept(bundles[i])]

\* the new index files made from an old one
MadeFrom(name) ==
    {i \in DOMAIN cv_last.names : cv_last.report.from[i] = name}

\* C31: after a successful gc-indexes every chunk record of every index file
\* is reachable from a backup; an index file whose records are all reachable
\* is kept as it was under its old name; any other is deleted and replaced by
\* at most one new file that holds exactly its reachable records, without
\* the bundles that keep none, and by no file when nothing is kept;
\* chunks_removed is the number of chunk records dropped
C31_GcShape ==
    GcRan =>
        LET old == cv_last.old
            live == cv_last.backup_chunk_ids
        IN /\ \A name \in DOMAIN cv_index :
                AllReferenced(cv_index[name], live)
           /\ \A name \in DOMAIN old :
                IF AllReferenced(old[name], live)
                THEN /\ name \in DOMAIN cv_index
                     /\ cv_index[name] = old[name]
                     /\ MadeFrom(name) = {}
                ELSE /\ name \notin DOMAIN cv_index
                     /\ Cardinality(MadeFrom(name)) <= 1
                     /\ MadeFrom(name) = {} <=> Surviving(old[name], live) = << >>
                     /\ \A i \in MadeFrom(name) :
                            cv_index[cv_last.names[i]] =
                                Surviving(old[name], live)
           /\ DOMAIN cv_index \subseteq DOMAIN old \cup Range(cv_last.names)
           /\ \A i \in DOMAIN cv_last.names :
                cv_last.report.from[i] \in DOMAIN old
           /\ cv_last.report.chunks_removed =
                ChunkRecordCount(ReadAll(old)) - ChunkRecordCount(ReadAll(cv_index))

\* gc-indexes kept one index file, rewrote one to fewer records and deleted
\* one without a replacement
C31_Witness ==
    /\ GcRan
    /\ cv_last.report.indexes_modified >= 1
    /\ cv_last.report.indexes_removed >= 1
    /\ cv_last.report.chunks_removed >= 2
    /\ \E name \in DOMAIN cv_last.old :
        AllReferenced(cv_last.old[name], cv_last.backup_chunk_ids)

GcFailed == cv_last.op = "gc_indexes" /\ cv_last.result = "err"

C38_CollectFails ==
    /\ GcFailed
    /\ cv_last.error = "collect_chunks_from_backup"
    /\ cv_index # << >>

----------------------------------------------------------------------------
(* Properties of tmp/ under two maintenance processes *)

\* C40: over every interleaving of two maintenance processes, tmp/ exists
\* whenever a writer calls create, and the drop of one process never
\* removes tmp/ while the writer of the other is alive: a writer removes its
\* staged files and tmp/ before it gives up the lock, and a new writer
\* creates tmp/ only after it holds the lock
C40_TmpDirOfLockHolder ==
    /\ ~ lock_hist.create_without_tmp
    /\ ~ lock_hist.tmp_removed_under_writer
    /\ \A p \in WriterHolders : lock_file.tmp /\ HoldsLock(lock_file, p)
    /\ \A p \in Procs :
        maint_procs[p].writer = "dropping" /\ lock_file.tmp_files = 0 =>
            ~ lock_file.tmp

\* one process has returned, its drop having removed tmp/, and the other
\* has taken the lock after it, made tmp/ again and staged a file in it
C40_Witness ==
    \E p \in Procs : \E q \in Procs \ {p} :
        /\ maint_procs[p].result = "returned"
        /\ maint_procs[q].writer = "alive"
        /\ maint_procs[q].staged >= 1
        /\ lock_file.tmp
        /\ lock_file.tmp_files = maint_procs[q].staged

----------------------------------------------------------------------------
(* Properties of the queue of bundles waiting for a slot *)

\* C36: bundles_to_load_list holds no bundle twice, its elements are the
\* keys of bundles_to_load, every bundle in bundles_to_load has at least
\* one chunk with at least one waiter, and while the queue is not empty
\* the number of bundles in bundles_loading is max_threads
C36_QueueInvariant ==
    /\ \A i \in DOMAIN bundles_to_load_list, j \in DOMAIN bundles_to_load_list :
        bundles_to_load_list[i] = bundles_to_load_list[j] => i = j
    /\ Range(bundles_to_load_list) = DOMAIN bundles_to_load
    /\ \A bundle_id \in DOMAIN bundles_to_load :
        /\ DOMAIN bundles_to_load[bundle_id] # {}
        /\ \A chunk_id \in DOMAIN bundles_to_load[bundle_id] :
            bundles_to_load[bundle_id][chunk_id] # << >>
    /\ bundles_to_load_list # << >> =>
        Cardinality(DOMAIN bundles_loading) = max_threads

\* two bundles wait in the queue behind a load that takes the one slot
C36_Witness ==
    /\ max_threads = 1
    /\ Len(bundles_to_load_list) = 2
    /\ Cardinality(DOMAIN bundles_loading) = 1

----------------------------------------------------------------------------
(* Progress of the scheduler *)

\* the request has a future to wait on: the call did not fail at once
Waiting(r) == max_threads >= 1 /\ requests[r].outer \in {"pending", "ready"}

\* the bundle the index names for the chunk of the request holds the chunk
InItsBundle(r) ==
    /\ requests[r].chunk \in DOMAIN master_index.map
    /\ requests[r].chunk \in DOMAIN BundleFiles[IndexBundle(requests[r].chunk)]

ResolvedWithBytes(r) ==
    /\ requests[r].outer = "ready"
    /\ requests[r].inner_res = "ok"
    /\ InItsBundle(r)
    /\ requests[r].inner_data =
        BundleFiles[IndexBundle(requests[r].chunk)][requests[r].chunk]

ResolvedWithError(r) ==
    /\ requests[r].chunk \in DOMAIN master_index.map
    /\ requests[r].outer = "ready"
    /\ requests[r].inner_res = "err"
    /\ requests[r].inner_err =
        ExpectedChunkError(requests[r].chunk, IndexBundle(requests[r].chunk))

\* a bundle leaves the queue only into bundles_loading
QueuedBundlesStart ==
    \A bundle_id \in DOMAIN bundles_to_load :
        bundle_id \notin DOMAIN bundles_to_load' =>
            bundle_id \in DOMAIN bundles_loading'

\* no bundle waits and no bundle is loading
NothingInFlight ==
    max_threads >= 1 =>
        bundles_to_load_list = << >> /\ bundles_loading = EmptyMap

\* C37 as stated: with max_threads >= 1, every read task ending in Ok and
\* the pool running every task, every queued bundle eventually moves to
\* bundles_loading, every loading bundle is eventually removed, and the
\* inner future of every request eventually resolves with the bytes of its
\* chunk. The requests are finitely many and a resolved future stays
\* resolved, so this is: again and again nothing is in flight and every
\* request made so far has its bytes
C37_EveryRequestGetsBytes ==
    /\ [][QueuedBundlesStart]_vars
    /\ []<>(/\ NothingInFlight
            /\ \A r \in Requesters : Waiting(r) => ResolvedWithBytes(r))

\* C37: with max_threads >= 1, every read task ending in Ok and the pool
\* running every task, every queued bundle eventually moves to
\* bundles_loading, every loading bundle is eventually removed, and the
\* inner future of every request eventually resolves: with the bytes of
\* its chunk when the bundle the index names for the chunk holds it, and
\* with an error otherwise
C37_EveryRequestResolves ==
    /\ [][QueuedBundlesStart]_vars
    /\ []<>(/\ NothingInFlight
            /\ \A r \in Requesters :
                Waiting(r) =>
                    IF InItsBundle(r) THEN ResolvedWithBytes(r)
                    ELSE ResolvedWithError(r))

\* a request that waited in the queue has been promoted and has its bytes,
\* and a request for a chunk its bundle does not hold has its error
C37_Witness ==
    /\ max_threads = 1
    /\ \E r \in Requesters :
        requests[r].via = "queue" /\ ResolvedWithBytes(r)
    /\ \E r \in Requesters :
        Waiting(r) /\ ~ InItsBundle(r) /\ ResolvedWithError(r)

----------------------------------------------------------------------------
(* Progress of reload_indexes next to bundle loads *)

\* the bundle read closures that hold a pool thread
BundleTasksOnThreads == {task \in pool.running : task.kind = "bundle"}

BlockedOnMutex ==
    {task \in pool.running : task.kind = "bundle" /\ task.phase = "lock"}

\* no call holds the mutex and the pool has nothing to run
PoolQuiet ==
    pool.mutex = "free" /\ pool.queue = << >> /\ pool.running = {}

\* C39: reload_indexes cannot deadlock with bundle loads in flight: the
\* bundle read closures hold at most max_threads of the max_threads + 1
\* pool threads, so while reload_indexes holds the state mutex and the
\* closures wait for it a thread is left for the index read tasks;
\* reload_indexes returns, and the closures that waited then run to their
\* end
C39_ReloadFinishes ==
    /\ [](Cardinality(BundleTasksOnThreads) <= max_threads)
    /\ []<>PoolQuiet

\* reload_indexes holds the mutex, every slot is taken by a closure that
\* waits for it, and an index read task has run on the thread left
C39_Witness ==
    /\ max_threads = MaxThreadsLimit
    /\ pool.mutex = "reload"
    /\ Cardinality(BlockedOnMutex) = max_threads
    /\ Len(pool.futures) = MaxIndexFiles
    /\ pool.waited >= 1


----------------------------------------------------------------------------
(* Properties of gc-bundles *)

\* the index entries of the repository, which gc-bundles leaves as they are
Indexed == GetAllIndexEntries(gcb.index)

IndexedChunks == {pair[2] : pair \in Indexed}

\* the bundle files that hold the chunk
HoldersOf(bundles, chunk_id) ==
    {b \in DOMAIN bundles : chunk_id \in Range(bundles[b])}

\* a bundle file the indexes name for the chunk holds it
HeldWhereIndexed(bundles, chunk_id) ==
    \E b \in DOMAIN bundles :
        << b, chunk_id >> \in Indexed /\ chunk_id \in Range(bundles[b])

\* no bundle file is without an indexed chunk
NoUselessBundle ==
    \A b \in DOMAIN gcb.bundles :
        Range(gcb.bundles[b]) \cap IndexedChunks # {}

\* C32 as stated: after a successful gc-bundles every chunk of the indexes is
\* in exactly one bundle file, and no bundle file is without an indexed chunk
C32_ExactlyOneBundle ==
    gcb.result = "ok" =>
        /\ \A c \in IndexedChunks :
                Cardinality(HoldersOf(gcb.bundles, c)) = 1
        /\ NoUselessBundle

\* C32: after a successful gc-bundles every chunk of the indexes is in at
\* most one bundle file, and in exactly one when before the run a bundle file
\* the indexes name for it held it; no bundle file is without an indexed
\* chunk
C32_AtMostOneBundle ==
    gcb.result = "ok" =>
        /\ \A c \in IndexedChunks :
                /\ Cardinality(HoldersOf(gcb.bundles, c)) <= 1
                /\ HeldWhereIndexed(gcb.old, c) =>
                        Cardinality(HoldersOf(gcb.bundles, c)) = 1
        /\ NoUselessBundle

\* a successful run that deletes a bundle, compacts another and finds a
\* chunk in two bundle files the indexes name for it
C32_Witness ==
    /\ gcb.result = "ok"
    /\ gcb.metadata.bundles_to_delete # << >>
    /\ gcb.metadata.bundles_to_compact # << >>
    /\ \E c \in IndexedChunks :
            Cardinality({b \in HoldersOf(gcb.old, c) :
                            << b, c >> \in Indexed}) >= 2


\* the run got as far as classifying the bundles
Classified ==
    gcb.runs > 0
        /\ gcb.stop \notin {"index_read_path", "bundle_info_read_path"}

\* the chunks the bundle file held before the run
ChunksBefore(b) == Range(gcb.old[b])

\* the chunks kept from the bundles listed before position i
SeenBefore(i) ==
    ReadBundlesMetadata(gcb.old, Indexed, SubSeq(gcb.old_bundles, 1, i - 1),
                        NoMetadata).seen_chunk_ids

\* C33: gc-bundles deletes a bundle exactly when no chunk of it is indexed
\* under it, compacts it when a chunk of it is indexed under it and some
\* chunk is orphan or was seen in an earlier bundle, and keeps it otherwise
C33_Classification ==
    Classified =>
        \A i \in DOMAIN gcb.old_bundles :
            LET b == gcb.old_bundles[i]
                indexed == {c \in ChunksBefore(b) : << b, c >> \in Indexed}
                to_reap ==
                    {c \in ChunksBefore(b) :
                        << b, c >> \notin Indexed \/ c \in SeenBefore(i)}
            IN /\ b \in Range(gcb.metadata.bundles_to_delete)
                    <=> indexed = {}
               /\ b \in Range(gcb.metadata.bundles_to_compact)
                    <=> (indexed # {} /\ to_reap # {})

\* every index entry names a bundle file that exists and holds the chunk
SelfConsistent(bundles) ==
    \A pair \in Indexed :
        pair[1] \in DOMAIN bundles /\ pair[2] \in Range(bundles[pair[1]])

\* every chunk a master index loaded from index/ resolves is in the bundle
\* file it is mapped to
Fetchable(bundles) ==
    \A order \in Orders(DOMAIN gcb.index) :
        LET master == LoadIndexDir(DOMAIN bundles, gcb.index, order)
        IN \A c \in DOMAIN master.map :
                /\ master.map[c].bundle_id \in DOMAIN bundles
                /\ c \in Range(bundles[master.map[c].bundle_id])

\* C34: when every index entry names an existing bundle file that holds the
\* chunk before gc-bundles runs, the same is true after the run, and every
\* chunk the master index resolves is in the bundle it is mapped to
C34_SelfConsistent ==
    (gcb.runs > 0 /\ SelfConsistent(gcb.old)) =>
        SelfConsistent(gcb.bundles) /\ Fetchable(gcb.bundles)


----------------------------------------------------------------------------
(* Properties of check-backups *)

\* the backups that were under backups/ before the last run and are not
\* there after it
MovedNames == DOMAIN chk.old.backups \ DOMAIN chk.tree.backups

\* the backup cannot be expanded, or a chunk collected from it is not in the
\* master index
IsBroken(backup_name) ==
    LET master == CheckMaster(chk.repo)
        collected ==
            CollectChunksFromBackup(chk.repo.bundles, master, {},
                                    chk.old.backups[backup_name])
    IN ~ collected.ok \/ \E c \in collected.chunk_ids : c \notin DOMAIN master.map

\* the hash of the name starts with the prefix the run was given
MatchesPrefix(backup_name) ==
    chk.backup_name_hash_prefix.is_some =>
        StartsWith(Sha1Hex[PathString(backup_name)],
                   chk.backup_name_hash_prefix.prefix)

\* C35: without move_broken check-backups leaves backups/ as it is; with it
\* the backups moved are the checked backups that are broken, each is gone
\* from its path and is at the same relative path under backups-broken/, and
\* no backup that is not broken or not selected by the prefix is moved
C35_MovesExactlyBroken ==
    chk.runs > 0 =>
        /\ ~ chk.move_broken => chk.tree = chk.old
        /\ chk.move_broken =>
                MovedNames = {name \in chk.checked : IsBroken(name)}
        /\ \A name \in MovedNames :
                /\ name \in DOMAIN chk.tree.backups_broken
                /\ chk.tree.backups_broken[name] = chk.old.backups[name]
                /\ IsBroken(name)
                /\ MatchesPrefix(name)
        /\ \A name \in DOMAIN chk.tree.backups :
                /\ name \in DOMAIN chk.old.backups
                /\ chk.tree.backups[name] = chk.old.backups[name]

\* a run with move_broken and a prefix that moves a backup, checks one that
\* is not broken and leaves a broken one the prefix does not select
C35_Witness ==
    /\ chk.move_broken
    /\ chk.backup_name_hash_prefix.is_some
    /\ MovedNames # {}
    /\ \E name \in chk.checked : ~ IsBroken(name)
    /\ \E name \in DOMAIN chk.old.backups \ Range(chk.backup_names) :
            IsBroken(name)

============================================================================
